---- MODULE Spec2Model ----
(***************************************************************************)
(* Verification model of reality-watcher: the JSON seen-store              *)
(* (JsonStateRepo), the deduplicating extractor (extract_new_listings),    *)
(* the watcher loop (Watcher.run / BezWatcher.run) and the Slack bot       *)
(* manager (BotManager) of the Sreality and the BezRealitky variants.      *)
(***************************************************************************)
EXTENDS Integers, Sequences, FiniteSets, TLC

\* ------------------------------------------------------------------------
\* Bounds of the model
\* ------------------------------------------------------------------------
NumIds == 2
NumPrices == 2
MaxDays == 1
NumInodes == 4
MaxCalls == 2
MaxLen == 2
MaxTake == 2
MaxSeen == 2
MaxPage == 1
MaxThreads == 2
MaxSleep == 2
MaxAge == 4

\* ------------------------------------------------------------------------
\* Universe
\* ------------------------------------------------------------------------
Variants == {"sreality", "bez"}
ChannelOrder == <<"C1", "C2">>
Channels == {ChannelOrder[i] : i \in 1..Len(ChannelOrder)}
Threads == 1..Len(ChannelOrder)
ItemIds == 1..NumIds
Prices == 1..NumPrices
NoPrice == 0
SecPerDay == 24 * 3600
EmptyMap == [k \in {} |-> 0]
\* no run_scrape call has been made
NoScrape == [op |-> "none", saved |-> 0, created |-> 0]
\* the web app with an empty database and a scheduler that was not started
NoWeb ==
  [cfgs |-> EmptyMap, rows |-> EmptyMap, jobs |-> {}, run |-> FALSE,
   call |-> EmptyMap, ret |-> NoScrape]

VARIABLES
  variant,   \* which of the two near-duplicate implementations is running
  now,       \* time.time(), in seconds
  db,        \* MemoryStateRepo._db : channel -> set of seen keys
  ts_db,     \* JsonStateRepo._ts_db : channel -> (key -> last_seen)
  disk,      \* directory: which inode the state path and its ".tmp" name
  inodes,    \* content of every inode, a sequence of JSON tokens
  th,        \* per thread: position inside save_seen / prune_old
  persisted, \* per channel: the keys a returned save_seen has put on disk
  calls,     \* number of store calls made so far
  d_pc,      \* deduplicator driver: "ready", "once", "twice"
  d_anchors, \* the detail links of the fetched page, in page order
  d_scan,    \* scan_limit
  d_take,    \* take
  d_S,       \* value of the caller's seen set before the first call
  d_seen,    \* the caller's seen set (the object passed as seen_ids)
  d_res1,    \* (new_items, total) of the first call
  d_res2,    \* (new_items, total) of the second call on the same set
  w_pc,      \* watcher loop: "tick", "extract", "deliver", "save", "sleep"
  w_take,    \* Watcher.burst_take
  w_source,  \* the detail links the source serves at the moment
  w_seen,    \* Watcher.seen_ids
  w_new,     \* new_items of the running tick
  w_i,       \* position of the delivery loop in new_items
  w_posted,  \* keys of the listings posted to the channel so far
  w_failed,  \* keys of the listings whose post failed in the latest delivery
  w_last,    \* how extract_new_listings ended in the latest tick: "none", "ok", "raised"
  w_unsaved, \* keys delivered in a tick whose save_seen failed that the file did not hold at the latest extraction
  w_ticks, \* ticks the loop has completed (SpecBacklog)
  w_obs, \* per key, the time of the latest tick whose page listed it (SpecAging)
  w_dup, \* keys posted by a tick although an earlier tick had posted them (SpecAging)
  w_always, \* keys listed by the page of every tick so far (SpecAging)
  s_cfg,     \* BotManager.watchers_cfg : entries [name, channel_id, interval] in dict order
  s_file,    \* content of the watchers config file
  s_threads, \* BotManager.threads : channel_id -> thread
  s_stops,   \* BotManager.stops : channel_id -> stop event (named by its thread)
  s_thr,     \* the watcher threads of the process: channel, stop event, alive,
             \* interval_sec, and interval0, the interval_sec it was constructed with
  s_chan,    \* Slack workspace: channel_id -> [name, archived]
  s_reply, \* what the manager answered to the latest command: none, done, rejected, shutdown
  r_pc,      \* store of one caller: "file" (not constructed), "up", "raised"
  r_last,    \* the latest call on that store and what it did
  l_pc,      \* position of a watcher thread in run()
  l_stop,    \* its stop event
  l_interval, \* its interval_sec
  l_left,    \* iterations left in the sleep loop
  l_stop_at, \* where the thread was when its stop event was set
  l_err, \* the step of run() that raised last: none, prune, extract, deliver, save
  l_peer, \* position of the loop of another watcher of the same manager
  a_reg,     \* channel_id of the config entry of one name, "" when it has none
  a_seen,    \* seen_ids of the loop started for that entry
  a_cur,     \* keys posted for that entry since it was added
  a_sent,    \* keys posted for removed entries of that name
  a_again,   \* keys posted for the entry that are in a_sent
  web        \* the web app: database rows, scheduler, latest calls (fields below)

storeVars == <<variant, now, db, ts_db, disk, inodes, th, persisted, calls>>
dedupVars == <<d_pc, d_anchors, d_scan, d_take, d_S, d_seen, d_res1, d_res2>>
watchVars == <<w_pc, w_take, w_source, w_seen, w_new, w_i, w_posted, w_failed, w_last, w_unsaved, w_ticks, w_obs, w_dup, w_always>>
supVars == <<s_cfg, s_file, s_threads, s_stops, s_thr, s_chan, s_reply>>
repoVars == <<r_pc, r_last>>
loopVars == <<l_pc, l_stop, l_interval, l_left, l_stop_at, l_err, l_peer>>
readdVars == <<a_reg, a_seen, a_cur, a_sent, a_again>>
webVars == <<web>>
\* SearchConfig rows: pk -> row
v_cfgs == web.cfgs
\* Listing rows: listing_id -> search_config (0: null)
v_rows == web.rows
\* jobs of the APScheduler instance, each with id and trigger seconds
v_jobs == web.jobs
\* scheduler.running
v_run == web.run
\* per config pk, the most recent schedule / unschedule call
v_call == web.call
\* what the most recent run_scrape or _scrape_job call did
v_ret == web.ret
vars == <<storeVars, dedupVars, watchVars, supVars, repoVars, loopVars, readdVars, webVars>>

\* ------------------------------------------------------------------------
\* Partial maps (Python dicts)
\* ------------------------------------------------------------------------
Get(d, k, default) == IF k \in DOMAIN d THEN d[k] ELSE default
Put(d, k, v) == [x \in (DOMAIN d) \cup {k} |-> IF x = k THEN v ELSE d[x]]

\* ------------------------------------------------------------------------
\* Dedup keys: f"{lid}:{price}" if price is not None else str(lid)
\* ------------------------------------------------------------------------
\* a key that leaves the price out
KeyIdOnly(it) == <<it.id>>
Key(it) == IF it.price = NoPrice THEN <<it.id>> ELSE <<it.id, it.price>>
KeyRank(k) == IF Len(k) = 1 THEN k[1] * (NumPrices + 1) ELSE k[1] * (NumPrices + 1) + k[2]

RECURSIVE Sorted(_)
Sorted(S) ==
  IF S = {} THEN <<>>
  ELSE LET m == CHOOSE x \in S : \A y \in S : KeyRank(x) <= KeyRank(y)
       IN <<m>> \o Sorted(S \ {m})

\* ------------------------------------------------------------------------
\* JSON text, as a sequence of tokens
\* ------------------------------------------------------------------------
OpenTok == [t |-> "{"]
CloseTok == [t |-> "}"]
HoleTok == [t |-> "nul"]
EntryTok(ch, val) == [t |-> "entry", ch |-> ch, val |-> val]
DictVal(m) == [fmt |-> "dict", map |-> m]
ListVal(s) == [fmt |-> "list", ids |-> s]

ChanSeq(D) == SelectSeq(ChannelOrder, LAMBDA c : c \in D)

\* json.dump(data, f, ...): one token per top-level entry
JsonDump(data) ==
  LET cs == ChanSeq(DOMAIN data)
  IN <<OpenTok>> \o [i \in 1..Len(cs) |-> EntryTok(cs[i], data[cs[i]])] \o <<CloseTok>>

JsonValid(c) ==
  /\ Len(c) >= 2
  /\ c[1] = OpenTok
  /\ c[Len(c)] = CloseTok
  /\ \A i \in 2..(Len(c) - 1) : c[i].t = "entry"

\* json.load of a valid text: a later duplicate of a name wins
JsonParse(c) ==
  LET idx == 2..(Len(c) - 1)
      last(ch) == CHOOSE i \in idx : c[i].ch = ch /\ \A j \in idx : c[j].ch = ch => j <= i
  IN [ch \in {c[i].ch : i \in idx} |-> c[last(ch)].val]

\* _load_json(path, {}): any failure (missing file, invalid JSON) gives {}
FileAt(dsk, ino, name) == IF dsk[name] = 0 THEN <<>> ELSE ino[dsk[name]]
LoadJson(dsk, ino, name) ==
  IF dsk[name] # 0 /\ JsonValid(ino[dsk[name]]) THEN JsonParse(ino[dsk[name]]) ELSE EmptyMap

\* ------------------------------------------------------------------------
\* MemoryStateRepo / JsonStateRepo, the in-memory part
\* ------------------------------------------------------------------------
GetSeen(d, ch) == Get(d, ch, {})

\* a save that rebuilds the store from the caller's partition alone
MemorySaveSeenAlone(d, ch, S) == [x \in {ch} |-> S]
\* self._db[channel_id] = set(seen)
MemorySaveSeen(d, ch, S) == Put(d, ch, S)

\* a save that stamps the ids in the timestamp map of every key
StampSeenEverywhere(tsdb, ch, S, t) ==
  LET D == (DOMAIN tsdb) \cup {ch}
  IN [c \in D |->
        LET old == Get(tsdb, c, EmptyMap)
        IN [k \in (DOMAIN old) \cup S |-> IF k \in S THEN t ELSE old[k]]]

\* for lid in seen_sorted: ch_map[lid] = now
StampSeen(tsdb, ch, S, t) ==
  LET old == Get(tsdb, ch, EmptyMap)
  IN Put(tsdb, ch, [k \in (DOMAIN old) \cup S |-> IF k \in S THEN t ELSE old[k]])

\* a prune that also drops the entries whose age is exactly the horizon
PruneKeepStrict(id_map, t, max_age_days) ==
  LET max_age_sec == max_age_days * SecPerDay
  IN [k \in {x \in DOMAIN id_map : t - id_map[x] < max_age_sec} |-> id_map[k]]

\* "age <= max_age_sec" of prune_old is false for the entry of lid
Expired(id_map, lid, t, max_age_days) ==
  lid \in DOMAIN id_map /\ t - id_map[lid] > max_age_days * SecPerDay

\* keep_ids of prune_old
PruneKeep(id_map, t, max_age_days) ==
  LET max_age_sec == max_age_days * SecPerDay
  IN [k \in {x \in DOMAIN id_map : t - id_map[x] <= max_age_sec} |-> id_map[k]]

\* a loader that stamps the ids of a list partition with the time of loading
TsDbOfRawStamped(raw) ==
  [ch \in DOMAIN raw |->
     IF raw[ch].fmt = "list" THEN [k \in {raw[ch].ids[i] : i \in 1..Len(raw[ch].ids)} |-> now]
     ELSE IF raw[ch].fmt = "dict" THEN raw[ch].map
     ELSE EmptyMap]

\* JsonStateRepo.__init__ of manager.py: raw -> _ts_db
TsDbOfRaw(raw) ==
  [ch \in DOMAIN raw |->
     IF raw[ch].fmt = "list" THEN [k \in {raw[ch].ids[i] : i \in 1..Len(raw[ch].ids)} |-> 0]
     ELSE IF raw[ch].fmt = "dict" THEN raw[ch].map
     ELSE EmptyMap]
DbOfTsDb(tsdb) == [ch \in DOMAIN tsdb |-> DOMAIN tsdb[ch]]

\* JsonStateRepo.__init__ of bez_manager.py: only list partitions are loaded
BezDbOfRaw(raw) ==
  [ch \in {c \in DOMAIN raw : raw[c].fmt = "list"} |->
     {raw[ch].ids[i] : i \in 1..Len(raw[ch].ids)}]

\* what save_seen / prune_old hand to _save_json
TsData(tsdb, dom) == [ch \in dom |-> DictVal(tsdb[ch])]
BezData(d) == [ch \in DOMAIN d |-> ListVal(Sorted(d[ch]))]

\* ------------------------------------------------------------------------
\* Files: open(tmp, "w"), write, os.replace(tmp, path)
\* ------------------------------------------------------------------------
Referenced(dsk, ths) ==
  {dsk.target, dsk.tmp} \cup {ths[t].fd : t \in Threads}
FreeInode(dsk, ths) ==
  CHOOSE i \in 1..NumInodes :
    /\ i \notin Referenced(dsk, ths)
    /\ \A j \in 1..NumInodes : j \notin Referenced(dsk, ths) => i <= j
\* an inode nothing refers to any more is gone
Collect(ino, dsk, ths) ==
  [i \in 1..NumInodes |-> IF i \in Referenced(dsk, ths) THEN ino[i] ELSE <<>>]

WriteAt(c, off, tok) ==
  IF off < Len(c) THEN [c EXCEPT ![off + 1] = tok]
  ELSE c \o [i \in 1..(off - Len(c)) |-> HoleTok] \o <<tok>>

\* ------------------------------------------------------------------------
\* The store used by the watcher threads of one process (SpecStore).
\* Thread t is the watcher whose state_key is KeyOf(t).
\* ------------------------------------------------------------------------
KeyOf(t) == ChannelOrder[t]
StoreKeys == {<<1, 1>>}
AgeDays == {0, 3}

IdleTh ==
  [pc |-> "idle", op |-> "none", arg |-> {}, t0 |-> 0, keep |-> EmptyMap,
   dom |-> {}, snap |-> EmptyMap, fd |-> 0, off |-> 0, buf |-> <<>>,
   last |-> "none", res |-> "none", ovl |-> FALSE]

InCall(r) == r.pc # "idle"
Others(t) == Threads \ {t}

\* a call starts: remember whether it overlaps a call of another thread
Enter(t, r) ==
  [u \in Threads |->
     IF u = t THEN [r EXCEPT !.ovl = \E v \in Others(t) : InCall(th[v])]
     ELSE IF InCall(th[u]) THEN [th[u] EXCEPT !.ovl = TRUE] ELSE th[u]]
\* a call returns
Leave(r, result) ==
  [IdleTh EXCEPT !.last = r.op, !.arg = r.arg, !.res = result, !.ovl = r.ovl]

notStore == <<dedupVars, watchVars, supVars, repoVars, loopVars, readdVars, webVars>>

\* no call has been made on the store yet
NoCall ==
  [op |-> "none", ch |-> "", days |-> 0, arg |-> {}, gone |-> {}, back |-> {},
   epoch |-> {}, raised |-> FALSE]

\* a thread slot with no running loop
FreeThread ==
  [ch |-> "", stop |-> FALSE, alive |-> FALSE, interval_sec |-> 0, interval0 |-> 0]

StoreInit ==
  /\ variant \in Variants
  /\ now = 0
  /\ db = EmptyMap
  /\ ts_db = EmptyMap
  /\ disk = [target |-> 0, tmp |-> 0]
  /\ inodes = [i \in 1..NumInodes |-> <<>>]
  /\ th = [t \in Threads |-> IdleTh]
  /\ persisted = [c \in Channels |-> {}]
  /\ calls = 0
  /\ d_pc = "off"
  /\ d_anchors = <<>>
  /\ d_scan = 0
  /\ d_take = 0
  /\ d_S = {}
  /\ d_seen = {}
  /\ d_res1 = <<>>
  /\ d_res2 = <<>>
  /\ w_pc = "off"
  /\ w_take = 0
  /\ w_source = <<>>
  /\ w_seen = {}
  /\ w_new = <<>>
  /\ w_i = 0
  /\ w_posted = {}
  /\ w_failed = {}
  /\ w_last = "none"
  /\ w_unsaved = {}
  /\ w_ticks = 0
  /\ w_obs = EmptyMap
  /\ w_dup = {}
  /\ w_always = {}
  /\ r_pc = "off"
  /\ r_last = NoCall
  /\ l_pc = "off"
  /\ l_stop = FALSE
  /\ l_interval = 0
  /\ l_left = 0
  /\ l_stop_at = "none"
  /\ l_err = "none"
  /\ l_peer = "off"
  /\ a_reg = ""
  /\ a_seen = {}
  /\ a_cur = {}
  /\ a_sent = {}
  /\ a_again = {}
  /\ web = NoWeb
  /\ s_cfg = <<>>
  /\ s_file = <<>>
  /\ s_threads = EmptyMap
  /\ s_stops = EmptyMap
  /\ s_thr = [i \in 1..MaxThreads |-> FreeThread]
  /\ s_chan = EmptyMap
  /\ s_reply = "none"

\* save_seen(channel_id, seen_sorted): now = time.time()
SaveSeenCall(t, S) ==
  /\ th[t].pc = "idle"
  /\ calls < MaxCalls
  /\ calls' = calls + 1
  /\ th' = Enter(t, [IdleTh EXCEPT !.pc = "ss_db", !.op = "save", !.arg = S, !.t0 = now])
  /\ UNCHANGED <<variant, now, db, ts_db, disk, inodes, persisted>>
  /\ UNCHANGED notStore

\* super().save_seen(channel_id, seen_sorted)
SsDb(t) ==
  /\ th[t].pc = "ss_db"
  /\ db' = MemorySaveSeen(db, KeyOf(t), th[t].arg)
  /\ th' = [th EXCEPT ![t].pc = IF variant = "sreality" THEN "ss_ts" ELSE "copy"]
  /\ UNCHANGED <<variant, now, ts_db, disk, inodes, persisted, calls>>
  /\ UNCHANGED notStore

\* ch_map = self._ts_db.setdefault(...); for lid in seen_sorted: ch_map[lid] = now
SsTs(t) ==
  /\ th[t].pc = "ss_ts"
  /\ ts_db' = StampSeen(ts_db, KeyOf(t), th[t].arg, th[t].t0)
  /\ th' = [th EXCEPT ![t].pc = "copy"]
  /\ UNCHANGED <<variant, now, db, disk, inodes, persisted, calls>>
  /\ UNCHANGED notStore

\* prune_old(channel_id, max_age_days): returns at once on an empty partition
PruneOldCall(t, days) ==
  /\ variant = "sreality"
  /\ th[t].pc = "idle"
  /\ calls < MaxCalls
  /\ calls' = calls + 1
  /\ LET id_map == Get(ts_db, KeyOf(t), EmptyMap)
     IN IF DOMAIN id_map = {}
        THEN th' = [th EXCEPT ![t] = [IdleTh EXCEPT !.last = "prune", !.res = "ok"]]
        ELSE th' = Enter(t, [IdleTh EXCEPT !.pc = "po_ts", !.op = "prune", !.t0 = now,
                                          !.keep = PruneKeep(id_map, now, days)])
  /\ UNCHANGED <<variant, now, db, ts_db, disk, inodes, persisted>>
  /\ UNCHANGED notStore

\* self._ts_db[channel_id] = keep_ids
PoTs(t) ==
  /\ th[t].pc = "po_ts"
  /\ ts_db' = Put(ts_db, KeyOf(t), th[t].keep)
  /\ th' = [th EXCEPT ![t].pc = "po_db"]
  /\ UNCHANGED <<variant, now, db, disk, inodes, persisted, calls>>
  /\ UNCHANGED notStore

\* self._db[channel_id] = set(keep_ids.keys())
PoDb(t) ==
  /\ th[t].pc = "po_db"
  /\ db' = Put(db, KeyOf(t), DOMAIN th[t].keep)
  /\ th' = [th EXCEPT ![t].pc = "copy"]
  /\ UNCHANGED <<variant, now, ts_db, disk, inodes, persisted, calls>>
  /\ UNCHANGED notStore

\* data_to_save = {ch: id_map for ...}: a new outer dict over the live inner
\* maps (manager.py); data = {k: sorted(list(v)) ...}: a copy (bez_manager.py)
CopyData(t) ==
  /\ th[t].pc = "copy"
  /\ th' = [th EXCEPT ![t].pc = "open",
                      ![t].dom = IF variant = "sreality" THEN DOMAIN ts_db ELSE {},
                      ![t].snap = IF variant = "sreality" THEN EmptyMap ELSE BezData(db)]
  /\ UNCHANGED <<variant, now, db, ts_db, disk, inodes, persisted, calls>>
  /\ UNCHANGED notStore

\* open(tmp, "w"): creates the file, or truncates the one already there
OpenTmp(t) ==
  /\ th[t].pc = "open"
  /\ LET f == IF disk.tmp # 0 THEN disk.tmp ELSE FreeInode(disk, th)
     IN /\ disk' = [disk EXCEPT !.tmp = f]
        /\ inodes' = [inodes EXCEPT ![f] = <<>>]
        /\ th' = [th EXCEPT ![t].pc = "dump", ![t].fd = f, ![t].off = 0]
  /\ UNCHANGED <<variant, now, db, ts_db, persisted, calls>>
  /\ UNCHANGED notStore

\* json.dump(data, f): the text is produced from the dicts as they are now
DumpData(t) ==
  /\ th[t].pc = "dump"
  /\ th' = [th EXCEPT ![t].pc = "write",
                      ![t].buf = IF variant = "sreality"
                                 THEN JsonDump(TsData(ts_db, th[t].dom))
                                 ELSE JsonDump(th[t].snap)]
  /\ UNCHANGED <<variant, now, db, ts_db, disk, inodes, persisted, calls>>
  /\ UNCHANGED notStore

\* the text reaches the file piece by piece, at this descriptor's offset;
\* the file is closed after the last piece
WriteTmp(t) ==
  /\ th[t].pc = "write"
  /\ LET r == th[t]
         done == Len(r.buf) = 1
         th1 == [th EXCEPT ![t].buf = Tail(r.buf), ![t].off = r.off + 1,
                           ![t].pc = IF done THEN "replace" ELSE "write",
                           ![t].fd = IF done THEN 0 ELSE r.fd]
     IN /\ th' = th1
        /\ inodes' = Collect([inodes EXCEPT ![r.fd] = WriteAt(@, r.off, Head(r.buf))], disk, th1)
  /\ UNCHANGED <<variant, now, db, ts_db, disk, persisted, calls>>
  /\ UNCHANGED notStore

\* os.replace(tmp, path): FileNotFoundError when tmp is not there any more
ReplaceTmp(t) ==
  /\ th[t].pc = "replace"
  /\ IF disk.tmp = 0
     THEN /\ th' = [th EXCEPT ![t] = Leave(th[t], "raised")]
          /\ UNCHANGED <<disk, inodes, persisted>>
     ELSE LET d1 == [target |-> disk.tmp, tmp |-> 0]
              th1 == [th EXCEPT ![t] = Leave(th[t], "ok")]
          IN /\ disk' = d1
             /\ th' = th1
             /\ inodes' = Collect(inodes, d1, th1)
             /\ persisted' = [persisted EXCEPT ![KeyOf(t)] =
                                IF th[t].op = "save" THEN th[t].arg
                                ELSE @ \cap DOMAIN th[t].keep]
  /\ UNCHANGED <<variant, now, db, ts_db, calls>>
  /\ UNCHANGED notStore

\* time passes
ClockTick ==
  /\ now < MaxDays * SecPerDay
  /\ now' = now + SecPerDay
  /\ UNCHANGED <<variant, db, ts_db, disk, inodes, th, persisted, calls>>
  /\ UNCHANGED notStore

\* the process dies at any point and is started again: JsonStateRepo.__init__
Restart ==
  /\ \E t \in Threads : th[t].last # "none" \/ InCall(th[t])
  /\ LET raw == LoadJson(disk, inodes, "target")
         th1 == [t \in Threads |-> IdleTh]
     IN /\ th' = th1
        /\ inodes' = Collect(inodes, disk, th1)
        /\ IF variant = "sreality"
           THEN /\ ts_db' = TsDbOfRaw(raw)
                /\ db' = DbOfTsDb(TsDbOfRaw(raw))
           ELSE /\ ts_db' = EmptyMap
                /\ db' = BezDbOfRaw(raw)
  /\ UNCHANGED <<variant, now, disk, persisted, calls>>
  /\ UNCHANGED notStore

StoreNext ==
  \/ \E t \in Threads, S \in SUBSET StoreKeys : SaveSeenCall(t, S)
  \/ \E t \in Threads : SsDb(t)
  \/ \E t \in Threads : SsTs(t)
  \/ \E t \in Threads, days \in AgeDays : PruneOldCall(t, days)
  \/ \E t \in Threads : PoTs(t)
  \/ \E t \in Threads : PoDb(t)
  \/ \E t \in Threads : CopyData(t)
  \/ \E t \in Threads : OpenTmp(t)
  \/ \E t \in Threads : DumpData(t)
  \/ \E t \in Threads : WriteTmp(t)
  \/ \E t \in Threads : ReplaceTmp(t)
  \/ ClockTick
  \/ Restart

SpecStore == StoreInit /\ [][StoreNext]_vars

\* ------------------------------------------------------------------------
\* Properties of the store
\* ------------------------------------------------------------------------
AllReturned == \A t \in Threads : th[t].pc = "idle"

\* C1: concurrent save safety. Whenever the latest call of a watcher thread
\* is a save_seen that has returned, get_seen of that thread's key is exactly
\* the set that call wrote, whatever the other thread did in the meantime.
C1_ConcurrentSaveSafe ==
  \A t \in Threads :
    (th[t].pc = "idle" /\ th[t].last = "save") => GetSeen(db, KeyOf(t)) = th[t].arg

\* C1 witness: two overlapping save_seen calls for two keys have both returned
C1_Witness ==
  \A t \in Threads :
    /\ th[t].pc = "idle" /\ th[t].last = "save"
    /\ th[t].ovl /\ th[t].arg # {}
    /\ GetSeen(db, KeyOf(t)) = th[t].arg

\* what a fresh JsonStateRepo would read from the state file
LoadedDb ==
  IF variant = "sreality" THEN DbOfTsDb(TsDbOfRaw(LoadJson(disk, inodes, "target")))
  ELSE BezDbOfRaw(LoadJson(disk, inodes, "target"))
LoadedTsDb == TsDbOfRaw(LoadJson(disk, inodes, "target"))

\* C2: the store serializes its load/merge/persist cycle. Once all concurrent
\* save_seen / prune_old calls have returned, none of them has failed and the
\* state file holds every key's latest partition, i.e. it reads back as the
\* in-memory store.
C2_SerializedPersist ==
  AllReturned =>
    /\ \A t \in Threads : th[t].res # "raised"
    /\ IF variant = "sreality" THEN LoadedTsDb = ts_db ELSE LoadedDb = db

\* C3: crash-safe persistence. At every point of every execution the file at
\* the state path is a complete JSON document, never a partial one.
C3_TargetComplete ==
  disk.target # 0 => JsonValid(inodes[disk.target])

\* C7: a restart does not cause duplicates. Keys that a returned save_seen
\* has persisted (and no later prune_old has expired) are in get_seen of the
\* store loaded at the restart, so the watcher's first tick skips them.
C7_RestartKeepsPersisted ==
  [][Restart => \A c \in Channels : persisted[c] \subseteq GetSeen(db', c)]_vars

\* ------------------------------------------------------------------------
\* The deduplicating extractor (SpecDedup)
\* ------------------------------------------------------------------------
\* what a page can list: item 1 at every price or with none, the other items
\* at one price; and the keys a seen set can hold for them
Items ==
  {[id |-> 1, price |-> p] : p \in Prices \cup {NoPrice}} \cup {[id |-> i, price |-> 1] : i \in ItemIds}
AllKeys == {<<1>>} \cup {<<1, p>> : p \in Prices} \cup {<<i, 1>> : i \in ItemIds}
SeqsUpTo(S, n) == UNION {[1..k -> S] : k \in 0..n}

\* extract_listing_links(html, base_url, max_links): first link of every id,
\* in page order, stopping once max_links have been collected
RECURSIVE LinkLoop(_, _, _, _, _)
LinkLoop(anchors, i, ids, results, max_links) ==
  IF i > Len(anchors) THEN results
  ELSE IF anchors[i].id \in ids THEN LinkLoop(anchors, i + 1, ids, results, max_links)
  ELSE LET r1 == Append(results, anchors[i])
       IN IF Len(r1) >= max_links THEN r1
          ELSE LinkLoop(anchors, i + 1, ids \cup {anchors[i].id}, r1, max_links)
ExtractListingLinks(anchors, max_links) == LinkLoop(anchors, 1, {}, <<>>, max_links)

\* a loop that, once take items are collected, marks the rest of the page
\* as seen as well
NewLoopMarksRest(listings, i, seen, new_items, take) ==
  LET novel == SelectSeq(SubSeq(listings, i, Len(listings)), LAMBDA it : Key(it) \notin seen)
      n1 == new_items \o SubSeq(novel, 1, IF take < Len(novel) THEN take ELSE Len(novel))
  IN [new |-> n1, seen |-> seen \cup {Key(novel[j]) : j \in 1..Len(novel)}]

\* the loop of extract_new_listings over the listings, from position i on
RECURSIVE NewLoop(_, _, _, _, _)
NewLoop(listings, i, seen, new_items, take) ==
  IF i > Len(listings) THEN [new |-> new_items, seen |-> seen]
  ELSE IF Key(listings[i]) \in seen THEN NewLoop(listings, i + 1, seen, new_items, take)
  ELSE LET n1 == Append(new_items, listings[i])
           s1 == seen \cup {Key(listings[i])}
       IN IF Len(n1) >= take THEN [new |-> n1, seen |-> s1]
          ELSE NewLoop(listings, i + 1, s1, n1, take)

\* a deduplicator that works on a copy of the caller's set
ExtractNewListingsOnCopy(anchors, seen_ids, scan_limit, take) ==
  LET listings == ExtractListingLinks(anchors, scan_limit)
      r == NewLoop(listings, 1, seen_ids, <<>>, take)
  IN [new |-> r.new, total |-> Len(listings), seen |-> seen_ids]

\* extract_new_listings(url, seen_ids, scan_limit, take): the returned pair
\* and the value of the caller's seen_ids afterwards
ExtractNewListings(anchors, seen_ids, scan_limit, take) ==
  LET listings == ExtractListingLinks(anchors, scan_limit)
      r == NewLoop(listings, 1, seen_ids, <<>>, take)
  IN [new |-> r.new, total |-> Len(listings), seen |-> r.seen]

DedupInit ==
  /\ variant = "sreality"
  /\ now = 0
  /\ db = EmptyMap
  /\ ts_db = EmptyMap
  /\ disk = [target |-> 0, tmp |-> 0]
  /\ inodes = [i \in 1..NumInodes |-> <<>>]
  /\ th = [t \in Threads |-> IdleTh]
  /\ persisted = [c \in Channels |-> {}]
  /\ calls = 0
  /\ d_pc = "ready"
  /\ d_anchors \in SeqsUpTo(Items, MaxLen)
  /\ d_scan \in 1..MaxLen
  /\ d_take \in 0..MaxTake
  /\ d_S \in {S \in SUBSET AllKeys : Cardinality(S) <= MaxSeen}
  /\ d_seen = d_S
  /\ d_res1 = <<>>
  /\ d_res2 = <<>>
  /\ w_pc = "off"
  /\ w_take = 0
  /\ w_source = <<>>
  /\ w_seen = {}
  /\ w_new = <<>>
  /\ w_i = 0
  /\ w_posted = {}
  /\ w_failed = {}
  /\ w_last = "none"
  /\ w_unsaved = {}
  /\ w_ticks = 0
  /\ w_obs = EmptyMap
  /\ w_dup = {}
  /\ w_always = {}
  /\ r_pc = "off"
  /\ r_last = NoCall
  /\ l_pc = "off"
  /\ l_stop = FALSE
  /\ l_interval = 0
  /\ l_left = 0
  /\ l_stop_at = "none"
  /\ l_err = "none"
  /\ l_peer = "off"
  /\ a_reg = ""
  /\ a_seen = {}
  /\ a_cur = {}
  /\ a_sent = {}
  /\ a_again = {}
  /\ web = NoWeb
  /\ s_cfg = <<>>
  /\ s_file = <<>>
  /\ s_threads = EmptyMap
  /\ s_stops = EmptyMap
  /\ s_thr = [i \in 1..MaxThreads |-> FreeThread]
  /\ s_chan = EmptyMap
  /\ s_reply = "none"

\* the caller passes its set and gets (new_items, total)
DedupCall ==
  /\ d_pc = "ready"
  /\ LET r == ExtractNewListings(d_anchors, d_seen, d_scan, d_take)
     IN /\ d_res1' = <<r.new, r.total>>
        /\ d_seen' = r.seen
  /\ d_pc' = "once"
  /\ UNCHANGED <<d_anchors, d_scan, d_take, d_S, d_res2>>
  /\ UNCHANGED <<storeVars, watchVars, supVars, repoVars, loopVars, readdVars, webVars>>

\* the caller calls again with the same page and the same set object
DedupCallAgain ==
  /\ d_pc = "once"
  /\ LET r == ExtractNewListings(d_anchors, d_seen, d_scan, d_take)
     IN /\ d_res2' = <<r.new, r.total>>
        /\ d_seen' = r.seen
  /\ d_pc' = "twice"
  /\ UNCHANGED <<d_anchors, d_scan, d_take, d_S, d_res1>>
  /\ UNCHANGED <<storeVars, watchVars, supVars, repoVars, loopVars, readdVars, webVars>>

DedupNext == DedupCall \/ DedupCallAgain

SpecDedup == DedupInit /\ [][DedupNext]_vars

\* ------------------------------------------------------------------------
\* Properties of the deduplicator
\* ------------------------------------------------------------------------
Listings == ExtractListingLinks(d_anchors, d_scan)
ItemsOf(seq) == {seq[i] : i \in 1..Len(seq)}
KeysOf(seq) == {Key(seq[i]) : i \in 1..Len(seq)}
\* candidates before position i whose key the caller had not seen
NovelBefore(i) ==
  Cardinality({j \in 1..(i - 1) :
                 (IF Listings[j].price = NoPrice THEN <<Listings[j].id>>
                  ELSE <<Listings[j].id, Listings[j].price>>) \notin d_S})

\* C8: at-most-limit per tick. For every take >= 0, extract_new_listings
\* returns at most take new items.
C8_AtMostLimit ==
  d_pc # "ready" => Len(d_res1[1]) <= d_take

SeenAtSamePrice(it, S) ==
  IF it.price = NoPrice THEN <<it.id>> \in S ELSE <<it.id, it.price>> \in S
SeenAtOtherPrice(it) ==
  /\ it.price # NoPrice
  /\ ~SeenAtSamePrice(it, d_S)
  /\ \E p \in Prices : p # it.price /\ <<it.id, p>> \in d_S
C10_PriceReappearance ==
  (d_pc = "once" /\ d_take >= 1) =>
    \A i \in 1..Len(Listings) :
      /\ SeenAtSamePrice(Listings[i], d_S) => Listings[i] \notin ItemsOf(d_res1[1])
      /\ SeenAtOtherPrice(Listings[i]) => Listings[i] \in ItemsOf(d_res1[1])

\* C10 as amended: a candidate seen at the same price is not selected; a
\* candidate seen at another price only is selected as new unless take novel
\* candidates precede it in the list, and then it stays out of the seen set,
\* to be selected by a later call.
C10_PriceReappearanceWithinLimit ==
  d_pc = "once" =>
    \A i \in 1..Len(Listings) :
      /\ SeenAtSamePrice(Listings[i], d_S) => Listings[i] \notin ItemsOf(d_res1[1])
      /\ (SeenAtOtherPrice(Listings[i]) /\ NovelBefore(i) < d_take)
           => Listings[i] \in ItemsOf(d_res1[1])
      /\ (SeenAtOtherPrice(Listings[i]) /\ Listings[i] \notin ItemsOf(d_res1[1]))
           => ~SeenAtSamePrice(Listings[i], d_seen)

\* C10 witness: one candidate seen at its price is skipped, another one seen
\* at a different price is returned
C10_Witness ==
  /\ d_pc = "once"
  /\ \E i, j \in 1..Len(Listings) :
       /\ SeenAtSamePrice(Listings[i], d_S) /\ Listings[i] \notin ItemsOf(d_res1[1])
       /\ SeenAtOtherPrice(Listings[j]) /\ Listings[j] \in ItemsOf(d_res1[1])

\* ------------------------------------------------------------------------
\* One watcher loop on its store (SpecWatch): Watcher.run of watcher.py on
\* the JsonStateRepo of manager.py, BezWatcher.run of bez_watcher.py on the
\* JsonStateRepo of bez_manager.py
\* ------------------------------------------------------------------------
WKey == "C1"
ScanLimit == 300
BurstTake == 20
TtlDays == 3

\* what the source can list: as many items as a page holds, item 1 at two
\* prices, the other items at one
WItems == {[id |-> i, price |-> 1] : i \in 1..MaxPage} \cup {[id |-> 1, price |-> 2]}
WPages ==
  {p \in SeqsUpTo(WItems, MaxPage) : \A i, j \in 1..Len(p) : p[i].id = p[j].id => i = j}

\* _save_json by the only writer: tmp is written and then replaces path; an
\* I/O error (ok = FALSE) raises before anything reaches the path
SaveJson(dsk, ino, data, ok) ==
  IF ok
  THEN LET f == IF dsk.tmp # 0 THEN dsk.tmp ELSE FreeInode(dsk, th)
           d1 == [target |-> f, tmp |-> 0]
       IN [disk |-> d1, inodes |-> Collect([ino EXCEPT ![f] = JsonDump(data)], d1, th)]
  ELSE [disk |-> dsk, inodes |-> ino]

\* prune_old(channel_id, max_age_days) as one call
PruneOld(d, tsdb, dsk, ino, ch, t, days, ok) ==
  LET id_map == Get(tsdb, ch, EmptyMap)
      keep == PruneKeep(id_map, t, days)
      ts1 == Put(tsdb, ch, keep)
      f == SaveJson(dsk, ino, TsData(ts1, DOMAIN ts1), ok)
  IN IF DOMAIN id_map = {}
     THEN [db |-> d, ts_db |-> tsdb, disk |-> dsk, inodes |-> ino, raised |-> FALSE]
     ELSE [db |-> Put(d, ch, DOMAIN keep), ts_db |-> ts1,
           disk |-> f.disk, inodes |-> f.inodes, raised |-> ~ok]

\* a save_seen that updates the memory only once the file is written
SaveSeenFileFirst(d, tsdb, dsk, ino, ch, S, t, ok) ==
  LET ts1 == StampSeen(tsdb, ch, S, t)
      f == SaveJson(dsk, ino, TsData(ts1, DOMAIN ts1), ok)
  IN [db |-> IF ok THEN MemorySaveSeen(d, ch, S) ELSE d, ts_db |-> IF ok THEN ts1 ELSE tsdb,
      disk |-> f.disk, inodes |-> f.inodes, raised |-> ~ok]

\* save_seen(channel_id, seen_sorted) as one call, manager.py
SaveSeen(d, tsdb, dsk, ino, ch, S, t, ok) ==
  LET ts1 == StampSeen(tsdb, ch, S, t)
      f == SaveJson(dsk, ino, TsData(ts1, DOMAIN ts1), ok)
  IN [db |-> MemorySaveSeen(d, ch, S), ts_db |-> ts1,
      disk |-> f.disk, inodes |-> f.inodes, raised |-> ~ok]

\* save_seen(channel_id, seen_sorted) as one call, bez_manager.py
BezSaveSeen(d, tsdb, dsk, ino, ch, S, ok) ==
  LET d1 == MemorySaveSeen(d, ch, S)
      f == SaveJson(dsk, ino, BezData(d1), ok)
  IN [db |-> d1, ts_db |-> tsdb, disk |-> f.disk, inodes |-> f.inodes, raised |-> ~ok]

\* an extraction that raises after its loop has gone over the listings
TryExtractLate(anchors, seen_ids, scan_limit, take, fails) ==
  LET r == ExtractNewListings(anchors, seen_ids, scan_limit, take)
  IN IF fails THEN [ok |-> FALSE, new |-> <<>>, seen |-> r.seen]
     ELSE [ok |-> TRUE, new |-> r.new, seen |-> r.seen]

\* extract_new_listings either raises while fetching the page and reading
\* its links, before the loop over the listings, or runs to its end
TryExtract(anchors, seen_ids, scan_limit, take, fails) ==
  IF fails THEN [ok |-> FALSE, new |-> <<>>, seen |-> seen_ids]
  ELSE LET r == ExtractNewListings(anchors, seen_ids, scan_limit, take)
       IN [ok |-> TRUE, new |-> r.new, seen |-> r.seen]

WatchInit ==
  /\ variant \in Variants
  /\ now = 0
  /\ db = EmptyMap
  /\ ts_db = EmptyMap
  /\ disk = [target |-> 0, tmp |-> 0]
  /\ inodes = [i \in 1..NumInodes |-> <<>>]
  /\ th = [t \in Threads |-> IdleTh]
  /\ persisted = [c \in Channels |-> {}]
  /\ calls = 0
  /\ w_pc = "tick"
  /\ w_take \in {1, BurstTake}
  /\ w_source \in WPages
  /\ w_seen = GetSeen(db, WKey)
  /\ w_new = <<>>
  /\ w_i = 0
  /\ w_posted = {}
  /\ w_failed = {}
  /\ w_last = "none"
  /\ w_unsaved = {}
  /\ w_ticks = 0
  /\ w_obs = EmptyMap
  /\ w_dup = {}
  /\ w_always = {}
  /\ r_pc = "off"
  /\ r_last = NoCall
  /\ l_pc = "off"
  /\ l_stop = FALSE
  /\ l_interval = 0
  /\ l_left = 0
  /\ l_stop_at = "none"
  /\ l_err = "none"
  /\ l_peer = "off"
  /\ a_reg = ""
  /\ a_seen = {}
  /\ a_cur = {}
  /\ a_sent = {}
  /\ a_again = {}
  /\ web = NoWeb
  /\ d_pc = "off"
  /\ d_anchors = <<>>
  /\ d_scan = 0
  /\ d_take = 0
  /\ d_S = {}
  /\ d_seen = {}
  /\ d_res1 = <<>>
  /\ d_res2 = <<>>
  /\ s_cfg = <<>>
  /\ s_file = <<>>
  /\ s_threads = EmptyMap
  /\ s_stops = EmptyMap
  /\ s_thr = [i \in 1..MaxThreads |-> FreeThread]
  /\ s_chan = EmptyMap
  /\ s_reply = "none"

\* a tick that saves the extended set before it posts anything
AfterExtractSaveFirst(new_items) == IF new_items # <<>> THEN "save" ELSE "sleep"

\* "if new_items:" of run(): the posts and the save are inside the branch
AfterExtract(new_items) == IF new_items # <<>> THEN "deliver" ELSE "sleep"

\* top of the loop: prune(self.state_key, max_age_days=3) where the repo has
\* prune_old, then self.seen_ids = set(get_seen(...)); an exception skips
\* the reload
WTickStart ==
  /\ w_pc = "tick"
  /\ \E ok \in BOOLEAN :
       LET r == IF variant = "sreality"
                THEN PruneOld(db, ts_db, disk, inodes, WKey, now, TtlDays, ok)
                ELSE [db |-> db, ts_db |-> ts_db, disk |-> disk, inodes |-> inodes,
                      raised |-> FALSE]
       IN /\ (variant = "bez" => ok)
          /\ db' = r.db
          /\ ts_db' = r.ts_db
          /\ disk' = r.disk
          /\ inodes' = r.inodes
          /\ w_seen' = IF r.raised THEN w_seen ELSE GetSeen(r.db, WKey)
  /\ w_unsaved' = {k \in w_unsaved : ~Expired(Get(ts_db, WKey, EmptyMap), k, now, TtlDays)}
  /\ UNCHANGED <<w_ticks, w_obs, w_dup, w_always>>
  /\ w_pc' = "extract"
  /\ UNCHANGED <<variant, now, th, persisted, calls>>
  /\ UNCHANGED <<w_take, w_source, w_new, w_i, w_posted, w_failed, w_last>>
  /\ UNCHANGED <<dedupVars, supVars, repoVars, loopVars, readdVars, webVars>>

\* extract_new_listings returns; with no new item the tick is over
WExtractOk ==
  /\ w_pc = "extract"
  /\ LET r == TryExtract(w_source, w_seen, ScanLimit, w_take, FALSE)
     IN /\ w_seen' = r.seen
        /\ w_new' = r.new
        /\ w_pc' = AfterExtract(r.new)
        /\ w_i' = IF r.new # <<>> THEN 1 ELSE 0
        /\ w_failed' = IF r.new # <<>> THEN {} ELSE w_failed
  /\ w_last' = "ok"
  /\ w_unsaved' = w_unsaved \ GetSeen(LoadedDb, WKey)
  /\ UNCHANGED <<w_ticks, w_obs, w_dup, w_always>>
  /\ UNCHANGED <<w_take, w_source, w_posted>>
  /\ UNCHANGED <<storeVars, dedupVars, supVars, repoVars, loopVars, readdVars, webVars>>

\* extract_new_listings raises: the handler reports the error to the channel
\* (watcher.py) or prints it (bez_watcher.py) and the loop goes to sleep
WExtractFail ==
  /\ w_pc = "extract"
  /\ LET r == TryExtract(w_source, w_seen, ScanLimit, w_take, TRUE)
     IN /\ w_seen' = r.seen
        /\ w_new' = r.new
  /\ w_pc' = "sleep"
  /\ w_last' = "raised"
  /\ w_unsaved' = w_unsaved \ GetSeen(LoadedDb, WKey)
  /\ UNCHANGED <<w_ticks, w_obs, w_dup, w_always>>
  /\ UNCHANGED <<w_take, w_source, w_i, w_posted, w_failed>>
  /\ UNCHANGED <<storeVars, dedupVars, supVars, repoVars, loopVars, readdVars, webVars>>

\* watcher.py: every listing is posted on its own, a failing post is
\* swallowed and the loop goes on to the next listing and then to the save
WDeliverOne ==
  /\ variant = "sreality"
  /\ w_pc = "deliver"
  /\ \E ok \in BOOLEAN :
       /\ w_posted' = IF ok THEN w_posted \cup {Key(w_new[w_i])} ELSE w_posted
       /\ w_failed' = IF ok THEN w_failed ELSE w_failed \cup {Key(w_new[w_i])}
  /\ w_i' = IF w_i = Len(w_new) THEN 0 ELSE w_i + 1
  /\ w_pc' = IF w_i = Len(w_new) THEN "save" ELSE "deliver"
  /\ UNCHANGED <<w_take, w_source, w_seen, w_new, w_last, w_unsaved, w_ticks, w_obs, w_dup, w_always>>
  /\ UNCHANGED <<storeVars, dedupVars, supVars, repoVars, loopVars, readdVars, webVars>>

\* bez_watcher.py: the batch is posted as one message; a failing post is
\* caught by the handler of the tick, which skips the save
WDeliverBatch ==
  /\ variant = "bez"
  /\ w_pc = "deliver"
  /\ \E ok \in BOOLEAN :
       /\ w_posted' = IF ok THEN w_posted \cup KeysOf(w_new) ELSE w_posted
       /\ w_failed' = IF ok THEN w_failed ELSE KeysOf(w_new)
       /\ w_pc' = IF ok THEN "save" ELSE "sleep"
  /\ w_i' = 0
  /\ UNCHANGED <<w_take, w_source, w_seen, w_new, w_last, w_unsaved, w_ticks, w_obs, w_dup, w_always>>
  /\ UNCHANGED <<storeVars, dedupVars, supVars, repoVars, loopVars, readdVars, webVars>>

\* self._save_seen(): save_seen(state_key, sorted(seen_ids)), errors swallowed
WSave ==
  /\ w_pc = "save"
  /\ \E ok \in BOOLEAN :
       LET r == IF variant = "sreality"
                THEN SaveSeen(db, ts_db, disk, inodes, WKey, w_seen, now, ok)
                ELSE BezSaveSeen(db, ts_db, disk, inodes, WKey, w_seen, ok)
       IN /\ db' = r.db
          /\ ts_db' = r.ts_db
          /\ disk' = r.disk
          /\ inodes' = r.inodes
          /\ w_unsaved' = IF ok THEN {} ELSE w_unsaved \cup (KeysOf(w_new) \ w_failed)
  /\ w_pc' = "sleep"
  /\ UNCHANGED <<variant, now, th, persisted, calls>>
  /\ UNCHANGED <<w_take, w_source, w_seen, w_new, w_i, w_posted, w_failed, w_last, w_ticks, w_obs, w_dup, w_always>>
  /\ UNCHANGED <<dedupVars, supVars, repoVars, loopVars, readdVars, webVars>>

\* the interval has elapsed
WSleepDone ==
  /\ w_pc = "sleep"
  /\ w_pc' = "tick"
  /\ UNCHANGED <<w_take, w_source, w_seen, w_new, w_i, w_posted, w_failed, w_last, w_unsaved, w_ticks, w_obs, w_dup, w_always>>
  /\ UNCHANGED <<storeVars, dedupVars, supVars, repoVars, loopVars, readdVars, webVars>>

\* while the loop sleeps the source changes its page
WSourceChange ==
  /\ w_pc = "sleep"
  /\ \E p \in WPages : p # w_source /\ w_source' = p
  /\ UNCHANGED <<w_pc, w_take, w_seen, w_new, w_i, w_posted, w_failed, w_last, w_unsaved, w_ticks, w_obs, w_dup, w_always>>
  /\ UNCHANGED <<storeVars, dedupVars, supVars, repoVars, loopVars, readdVars, webVars>>

\* while the loop sleeps time passes
WClockTick ==
  /\ w_pc = "sleep"
  /\ now < MaxDays * SecPerDay
  /\ now' = now + SecPerDay
  /\ UNCHANGED <<variant, db, ts_db, disk, inodes, th, persisted, calls>>
  /\ UNCHANGED <<watchVars, dedupVars, supVars, repoVars, loopVars, readdVars, webVars>>

\* the process is started again: new JsonStateRepo from the file, new Watcher
WRestart ==
  /\ w_pc # "tick"
  /\ LET raw == LoadJson(disk, inodes, "target")
         d1 == IF variant = "sreality" THEN DbOfTsDb(TsDbOfRaw(raw)) ELSE BezDbOfRaw(raw)
     IN /\ db' = d1
        /\ ts_db' = IF variant = "sreality" THEN TsDbOfRaw(raw) ELSE EmptyMap
        /\ w_seen' = GetSeen(d1, WKey)
  /\ w_pc' = "tick"
  /\ w_new' = <<>>
  /\ w_i' = 0
  /\ w_failed' = {}
  /\ UNCHANGED <<variant, now, disk, inodes, th, persisted, calls>>
  /\ w_last' = "none"
  /\ w_unsaved' = {}
  /\ UNCHANGED <<w_ticks, w_obs, w_dup, w_always>>
  /\ UNCHANGED <<w_take, w_source, w_posted>>
  /\ UNCHANGED <<dedupVars, supVars, repoVars, loopVars, readdVars, webVars>>

WatchNext ==
  \/ WTickStart
  \/ WExtractOk
  \/ WExtractFail
  \/ WDeliverOne
  \/ WDeliverBatch
  \/ WSave
  \/ WSleepDone
  \/ WSourceChange
  \/ WClockTick
  \/ WRestart

SpecWatch == WatchInit /\ [][WatchNext]_vars

\* ------------------------------------------------------------------------
\* Properties of the watcher loop
\* ------------------------------------------------------------------------
\* keys a fresh store would read from the state file for the watcher's key
PersistedSeen == GetSeen(LoadedDb, WKey)

\* C5: a delivery failure does not commit dedup state. At the end of a tick
\* the keys of the items whose post failed are in neither the store's seen
\* set nor the state file, so the next tick selects them again.
C5_FailedNotCommitted ==
  w_pc = "sleep" => w_failed \cap (GetSeen(db, WKey) \cup PersistedSeen) = {}

Names == {"a", "b"}
OtherName == "other"
DefaultInterval == 60
AddIntervals == {DefaultInterval}
SetIntervals == {0}

\* watchers_cfg is a dict: entries keep their insertion order
CfgNames(cfg) == {cfg[i].name : i \in 1..Len(cfg)}
CfgIdx(cfg, name) == CHOOSE i \in 1..Len(cfg) : cfg[i].name = name
CfgGet(cfg, name) == cfg[CfgIdx(cfg, name)]
CfgEntry(name, c, interval) == [name |-> name, channel_id |-> c, interval |-> interval]
\* watchers_cfg[name] = {...}
CfgPut(cfg, name, c, interval) ==
  IF name \in CfgNames(cfg)
  THEN [cfg EXCEPT ![CfgIdx(cfg, name)] = CfgEntry(name, c, interval)]
  ELSE Append(cfg, CfgEntry(name, c, interval))
\* del watchers_cfg[name] / watchers_cfg.pop(name, None)
CfgDel(cfg, name) == SelectSeq(cfg, LAMBDA e : e.name # name)

\* a save that adds to the file what it does not hold yet
SaveCfgMerge(file, cfg) ==
  file \o SelectSeq(cfg, LAMBDA e : \A i \in 1..Len(file) : file[i] # e)

\* _save_json(CONFIG_PATH, self.watchers_cfg): the dump of the whole dict is
\* written to the ".tmp" name, which then replaces the config file
SaveCfg(file, cfg) == cfg

Del(d, k) == [x \in (DOMAIN d) \ {k} |-> d[x]]
LiveOn(thr, c) == {i \in DOMAIN thr : thr[i].alive /\ thr[i].ch = c}
FreeSlots(thr) == {i \in DOMAIN thr : ~thr[i].alive}
NewSlot(thr) == CHOOSE i \in FreeSlots(thr) : \A j \in FreeSlots(thr) : i <= j

\* Watcher(channel_id, interval_sec=..., stop_event=stop) and th.start():
\* interval_sec = int(interval_sec or DEFAULT_INTERVAL_SEC)
NewThread(c, interval) ==
  [ch |-> c, stop |-> FALSE, alive |-> TRUE,
   interval_sec |-> IF interval = 0 THEN DefaultInterval ELSE interval,
   interval0 |-> IF interval = 0 THEN DefaultInterval ELSE interval]
Started(thr, c, interval) == [thr EXCEPT ![NewSlot(thr)] = NewThread(c, interval)]

\* if cid in self.stops: self.stops[cid].set()
SetStop(thr, stops, c) ==
  IF c \in DOMAIN stops THEN [thr EXCEPT ![stops[c]].stop = TRUE] ELSE thr
\* if cid in self.threads: self.threads[cid].join(timeout=5); the loop sees
\* its stop event within the 5 seconds (exited) or is still in its tick
Joined(thr, threads, c, exited) ==
  IF c \in DOMAIN threads /\ exited /\ thr[threads[c]].stop
  THEN [thr EXCEPT ![threads[c]] = FreeThread] ELSE thr

\* the command's channel exists in the workspace, created by the bot or not
Here(chan, c) ==
  IF c \in DOMAIN chan THEN chan ELSE Put(chan, c, [name |-> OtherName, archived |-> FALSE])
NamedChannels(chan, name) == {c \in DOMAIN chan : chan[c].name = name}

SupInit ==
  /\ variant \in Variants
  /\ now = 0
  /\ db = EmptyMap
  /\ ts_db = EmptyMap
  /\ disk = [target |-> 0, tmp |-> 0]
  /\ inodes = [i \in 1..NumInodes |-> <<>>]
  /\ th = [t \in Threads |-> IdleTh]
  /\ persisted = [c \in Channels |-> {}]
  /\ calls = 0
  /\ s_cfg = <<>>
  /\ s_file = <<>>
  /\ s_threads = EmptyMap
  /\ s_stops = EmptyMap
  /\ s_thr = [i \in 1..MaxThreads |-> FreeThread]
  /\ s_chan = EmptyMap
  /\ s_reply = "none"
  /\ d_pc = "off"
  /\ d_anchors = <<>>
  /\ d_scan = 0
  /\ d_take = 0
  /\ d_S = {}
  /\ d_seen = {}
  /\ d_res1 = <<>>
  /\ d_res2 = <<>>
  /\ w_pc = "off"
  /\ w_take = 0
  /\ w_source = <<>>
  /\ w_seen = {}
  /\ w_new = <<>>
  /\ w_i = 0
  /\ w_posted = {}
  /\ w_failed = {}
  /\ w_last = "none"
  /\ w_unsaved = {}
  /\ w_ticks = 0
  /\ w_obs = EmptyMap
  /\ w_dup = {}
  /\ w_always = {}
  /\ r_pc = "off"
  /\ r_last = NoCall
  /\ l_pc = "off"
  /\ l_stop = FALSE
  /\ l_interval = 0
  /\ l_left = 0
  /\ l_stop_at = "none"
  /\ l_err = "none"
  /\ l_peer = "off"
  /\ a_reg = ""
  /\ a_seen = {}
  /\ a_cur = {}
  /\ a_sent = {}
  /\ a_again = {}
  /\ web = NoWeb

\* the manager has not been shut down
Running == s_reply # "shutdown"

SupFrame == UNCHANGED <<variant, now, db, ts_db, disk, inodes, th, persisted, calls, dedupVars, watchVars, repoVars, loopVars, readdVars, webVars>>

\* manager.py _cmd_add: rejected for a known name; the loop is started on the
\* command's channel (add_here) or on a channel created under the name, and
\* registered for that channel whatever is registered there
CmdAdd(name, c, interval, add_here) ==
  /\ Running
  /\ s_reply' = "done"
  /\ variant = "sreality"
  /\ FreeSlots(s_thr) # {}
  /\ name \notin CfgNames(s_cfg)
  /\ IF add_here
     THEN s_chan' = Here(s_chan, c)
     ELSE /\ c \notin DOMAIN s_chan
          /\ NamedChannels(s_chan, name) = {}
          /\ s_chan' = Put(s_chan, c, [name |-> name, archived |-> FALSE])
  /\ s_thr' = Started(s_thr, c, interval)
  /\ s_stops' = Put(s_stops, c, NewSlot(s_thr))
  /\ s_threads' = Put(s_threads, c, NewSlot(s_thr))
  /\ s_cfg' = CfgPut(s_cfg, name, c, interval)
  /\ s_file' = SaveCfg(s_file, s_cfg')
  /\ SupFrame

\* bez_manager.py _cmd_add (channel from _ensure_private_channel: the one of
\* that name, else a new one) and _cmd_add_here: the config entry is written,
\* a loop registered for the channel is stopped and joined for 5 s, the new
\* loop is started
BezCmdAdd(name, c, interval, add_here, exited) ==
  /\ Running
  /\ s_reply' = "done"
  /\ variant = "bez"
  /\ IF add_here
     THEN s_chan' = Here(s_chan, c)
     ELSE IF NamedChannels(s_chan, name) # {}
          THEN c \in NamedChannels(s_chan, name) /\ s_chan' = s_chan
          ELSE c \notin DOMAIN s_chan
               /\ s_chan' = Put(s_chan, c, [name |-> name, archived |-> FALSE])
  /\ s_cfg' = CfgPut(s_cfg, name, c, interval)
  /\ s_file' = SaveCfg(s_file, s_cfg')
  /\ LET t1 == IF c \in DOMAIN s_threads THEN SetStop(s_thr, s_stops, c) ELSE s_thr
         t2 == Joined(t1, s_threads, c, exited)
     IN /\ FreeSlots(t2) # {}
        /\ s_thr' = Started(t2, c, interval)
        /\ s_stops' = Put(s_stops, c, NewSlot(t2))
        /\ s_threads' = Put(s_threads, c, NewSlot(t2))
  /\ SupFrame

\* the stop / join / forget sequence shared by remove and archive
StopAndForget(c, exited) ==
  /\ s_thr' = Joined(SetStop(s_thr, s_stops, c), s_threads, c, exited)
  /\ s_threads' = Del(s_threads, c)
  /\ s_stops' = Del(s_stops, c)

\* manager.py _cmd_remove: the channel stays as it is
CmdRemove(name, exited) ==
  /\ Running
  /\ s_reply' = "done"
  /\ variant = "sreality"
  /\ name \in CfgNames(s_cfg)
  /\ StopAndForget(CfgGet(s_cfg, name).channel_id, exited)
  /\ s_cfg' = CfgDel(s_cfg, name)
  /\ s_file' = SaveCfg(s_file, s_cfg')
  /\ UNCHANGED s_chan
  /\ SupFrame

\* manager.py _cmd_archive and bez_manager.py _cmd_remove: as remove, and the
\* channel is archived (bez: renamed to <name>-archN first) unless Slack
\* refuses
CmdArchive(name, exited, slack_ok) ==
  /\ Running
  /\ s_reply' = "done"
  /\ name \in CfgNames(s_cfg)
  /\ LET c == CfgGet(s_cfg, name).channel_id
     IN /\ StopAndForget(c, exited)
        /\ s_chan' =
             IF ~slack_ok \/ c \notin DOMAIN s_chan THEN s_chan
             ELSE Put(s_chan, c,
                      [name |-> IF variant = "bez" THEN OtherName ELSE s_chan[c].name,
                       archived |-> TRUE])
  /\ s_cfg' = CfgDel(s_cfg, name)
  /\ s_file' = SaveCfg(s_file, s_cfg')
  /\ SupFrame

\* manager.py _cmd_interval: refused when no loop is registered for the
\* channel, else the running loop's interval_sec is overwritten
CmdInterval(name, sec) ==
  /\ Running
  /\ s_reply' = "done"
  /\ variant = "sreality"
  /\ name \in CfgNames(s_cfg)
  /\ CfgGet(s_cfg, name).channel_id \in DOMAIN s_threads
  /\ s_thr' = [s_thr EXCEPT ![s_threads[CfgGet(s_cfg, name).channel_id]].interval_sec = sec]
  /\ s_cfg' = [s_cfg EXCEPT ![CfgIdx(s_cfg, name)].interval = sec]
  /\ s_file' = SaveCfg(s_file, s_cfg')
  /\ UNCHANGED <<s_threads, s_stops, s_chan>>
  /\ SupFrame

\* bez_manager.py _cmd_interval: config saved, the loop stopped and joined
\* for 5 s, a new loop started
BezCmdInterval(name, sec, exited) ==
  /\ Running
  /\ s_reply' = "done"
  /\ variant = "bez"
  /\ name \in CfgNames(s_cfg)
  /\ s_cfg' = [s_cfg EXCEPT ![CfgIdx(s_cfg, name)].interval = sec]
  /\ s_file' = SaveCfg(s_file, s_cfg')
  /\ LET c == CfgGet(s_cfg, name).channel_id
         t2 == Joined(SetStop(s_thr, s_stops, c), s_threads, c, exited)
     IN /\ FreeSlots(t2) # {}
        /\ s_thr' = Started(t2, c, sec)
        /\ s_stops' = Put(s_stops, c, NewSlot(t2))
        /\ s_threads' = Put(s_threads, c, NewSlot(t2))
  /\ UNCHANGED s_chan
  /\ SupFrame

\* a rename that leaves the entry of the old name in the dict
RenamedKeepsOld(cfg, old, new) ==
  CfgPut(cfg, new, CfgGet(cfg, old).channel_id, CfgGet(cfg, old).interval)

\* self.watchers_cfg[new_name] = cfg; del self.watchers_cfg[old_name]
Renamed(cfg, old, new) ==
  CfgDel(CfgPut(cfg, new, CfgGet(cfg, old).channel_id, CfgGet(cfg, old).interval), old)

\* manager.py _cmd_rename: the Slack channel is renamed to
\* sreality-<new>-archN, the entry moves to the new name at the end of the dict
CmdRename(old, new) ==
  /\ Running
  /\ s_reply' = "done"
  /\ variant = "sreality"
  /\ old \in CfgNames(s_cfg)
  /\ new \notin CfgNames(s_cfg)
  /\ s_cfg' = Renamed(s_cfg, old, new)
  /\ s_chan' = [s_chan EXCEPT ![CfgGet(s_cfg, old).channel_id].name = OtherName]
  /\ s_file' = SaveCfg(s_file, s_cfg')
  /\ UNCHANGED <<s_threads, s_stops, s_thr>>
  /\ SupFrame

\* a loop whose stop event is set leaves its loop and its thread ends
ThreadExit(i) ==
  /\ s_thr[i].alive /\ s_thr[i].stop
  /\ s_thr' = [s_thr EXCEPT ![i] = FreeThread]
  /\ UNCHANGED <<s_cfg, s_file, s_threads, s_stops, s_chan, s_reply>>
  /\ SupFrame

\* the restore loop of BotManager.__init__ over the entries from index i:
\* an entry is skipped when its channel has a thread already, and (manager.py)
\* when the channel is archived or conversations_info fails for it
RECURSIVE BootLoop(_, _, _, _, _)
BootLoop(cfg, i, threads, thr, skip) ==
  IF i > Len(cfg) THEN [threads |-> threads, thr |-> thr]
  ELSE LET cid == cfg[i].channel_id
       IN IF cid \in DOMAIN threads \/ cid \in skip
          THEN BootLoop(cfg, i + 1, threads, thr, skip)
          ELSE BootLoop(cfg, i + 1, Put(threads, cid, NewSlot(thr)),
                        Started(thr, cid, cfg[i].interval), skip)

\* the process ends (its threads with it) and a new BotManager is constructed
\* from the config file
Boot(down) ==
  /\ s_cfg # <<>>
  /\ s_cfg' = s_file
  /\ LET skip == IF variant = "sreality"
                 THEN down \cup {c \in DOMAIN s_chan : s_chan[c].archived}
                 ELSE {}
         r == BootLoop(s_file, 1, EmptyMap, [i \in 1..MaxThreads |-> FreeThread], skip)
     IN /\ s_threads' = r.threads
        /\ s_stops' = r.threads
        /\ s_thr' = r.thr
  /\ s_reply' = "none"
  /\ UNCHANGED <<s_file, s_chan>>
  /\ SupFrame

\* a command that is answered with a usage or error message before anything
\* is changed: manager.py add for a known name or when Slack refuses to
\* create the channel; remove, archive (manager.py), interval and rename
\* (manager.py) for an unknown name; interval for an entry without a running
\* loop (manager.py); rename to a known name or with Slack refusing to
\* rename the channel; missing arguments or an unknown command ("usage")
CmdRejected(cmd, name) ==
  /\ Running
  /\ \/ cmd = "add" /\ variant = "sreality"
        /\ (name \in CfgNames(s_cfg) \/ NamedChannels(s_chan, name) # {})
     \/ cmd = "remove" /\ name \notin CfgNames(s_cfg)
     \/ cmd = "archive" /\ variant = "sreality" /\ name \notin CfgNames(s_cfg)
     \/ cmd = "interval"
        /\ \/ name \notin CfgNames(s_cfg)
           \/ variant = "sreality" /\ name \in CfgNames(s_cfg)
              /\ CfgGet(s_cfg, name).channel_id \notin DOMAIN s_threads
     \/ cmd = "rename" /\ variant = "sreality"
        /\ \/ name \notin CfgNames(s_cfg)
           \/ \E new \in Names : new \in CfgNames(s_cfg)
           \/ name \in CfgNames(s_cfg) \* conversations_rename raises
     \/ cmd = "usage"
  /\ s_reply' = "rejected"
  /\ UNCHANGED <<s_cfg, s_file, s_threads, s_stops, s_thr, s_chan>>
  /\ SupFrame

\* a shutdown that joins the threads and sets no stop event
StopNone(thr, stops) == thr

\* for ev in self.stops.values(): ev.set()
StopAll(thr, stops) ==
  [i \in DOMAIN thr |->
     IF \E c \in DOMAIN stops : stops[c] = i THEN [thr[i] EXCEPT !.stop = TRUE] ELSE thr[i]]

\* bez_manager.py shutdown: every registered stop event is set, every
\* registered thread is joined for 5 s; the threads in `exited` see their
\* stop event and end within that time. manager.py has no shutdown.
Shutdown(exited) ==
  /\ variant = "bez"
  /\ Running
  /\ s_threads # EmptyMap
  /\ LET t1 == StopAll(s_thr, s_stops)
     IN s_thr' = [i \in DOMAIN t1 |->
                   IF i \in exited /\ t1[i].stop /\ (\E c \in DOMAIN s_threads : s_threads[c] = i)
                   THEN FreeThread ELSE t1[i]]
  /\ s_reply' = "shutdown"
  /\ UNCHANGED <<s_cfg, s_file, s_threads, s_stops, s_chan>>
  /\ SupFrame

SupNext ==
  \/ \E n \in Names, c \in Channels, iv \in AddIntervals, h \in BOOLEAN : CmdAdd(n, c, iv, h)
  \/ \E n \in Names, c \in Channels, iv \in AddIntervals, h \in BOOLEAN, e \in BOOLEAN :
       BezCmdAdd(n, c, iv, h, e)
  \/ \E n \in Names, e \in BOOLEAN : CmdRemove(n, e)
  \/ \E n \in Names, e \in BOOLEAN, ok \in BOOLEAN : CmdArchive(n, e, ok)
  \/ \E n \in Names, iv \in SetIntervals : CmdInterval(n, iv)
  \/ \E n \in Names, iv \in SetIntervals, e \in BOOLEAN : BezCmdInterval(n, iv, e)
  \/ \E o \in Names, n \in Names : CmdRename(o, n)
  \/ \E i \in 1..MaxThreads : ThreadExit(i)
  \/ \E down \in SUBSET Channels : Boot(down)
  \/ \E cmd \in {"add", "remove", "archive", "interval", "rename", "usage"}, n \in Names :
       CmdRejected(cmd, n)
  \/ \E exited \in SUBSET (1..MaxThreads) : Shutdown(exited)

SpecSup == SupInit /\ [][SupNext]_vars

\* ------------------------------------------------------------------------
\* Properties of the bot manager
\* ------------------------------------------------------------------------

\* C4: whatever commands were handled and at boot, every destination
\* (channel id) has at most one live watcher loop thread.
C4_OneLoopPerDestination ==
  \A c \in Channels : Cardinality(LiveOn(s_thr, c)) <= 1

\* ------------------------------------------------------------------------
\* The seen store used by one caller at a time (SpecRepo): JsonStateRepo of
\* manager.py and of bez_manager.py, constructed from a state file of any
\* content, then save_seen and prune_old as whole calls
\* ------------------------------------------------------------------------
RKeys == {<<1, 1>>, <<2, 1>>}

\* a JSON text whose top level is a list
ArrayTok == [t |-> "[]"]
\* a partition that is neither a list nor a dict (a number, a string, null)
ScalarVal == [fmt |-> "scalar"]
\* a dict partition with a timestamp that float() does not take (null, "x")
NonNumVal(m) == [fmt |-> "dict_nonnum", map |-> m]

\* partitions a state file can hold: a list of ids, a dict written a day
\* after the epoch, which is when the store is constructed, a dict with a
\* timestamp of the day after that, and odd shapes
RepoVals ==
  {ListVal(<<<<1, 1>>, <<2, 1>>>>),
   DictVal([k \in RKeys |-> SecPerDay]),
   DictVal([k \in {<<1, 1>>} |-> 2 * SecPerDay]),
   ScalarVal,
   NonNumVal([k \in {<<1, 1>>} |-> 0])}
\* the first channel holds any of them, the second a list or nothing
RepoData ==
  {d \in UNION {[D -> RepoVals] : D \in SUBSET Channels} :
     \A ch \in DOMAIN d : ch # ChannelOrder[1] => d[ch].fmt = "list"}
\* the texts of a state file: zero bytes, cut short, a list, a mapping
RepoFiles == {<<>>, <<OpenTok>>, <<ArrayTok>>} \cup {JsonDump(data) : data \in RepoData}

\* JsonStateRepo.__init__: raw = _load_json(path, {}); raw.items() raises on
\* a top level that is no mapping; manager.py raises on float(ts) of a
\* timestamp that is no number; bez_manager.py loads list partitions only
NewRepo(v, dsk, ino) ==
  LET c == FileAt(dsk, ino, "target")
      raw == LoadJson(dsk, ino, "target")
  IN IF dsk.target # 0 /\ c = <<ArrayTok>>
     THEN [raised |-> TRUE, db |-> EmptyMap, ts_db |-> EmptyMap]
     ELSE IF v = "sreality"
     THEN IF \E ch \in DOMAIN raw : raw[ch].fmt = "dict_nonnum"
          THEN [raised |-> TRUE, db |-> EmptyMap, ts_db |-> EmptyMap]
          ELSE [raised |-> FALSE, db |-> DbOfTsDb(TsDbOfRaw(raw)), ts_db |-> TsDbOfRaw(raw)]
     ELSE [raised |-> FALSE, db |-> BezDbOfRaw(raw), ts_db |-> EmptyMap]

RepoInit ==
  /\ variant \in Variants
  /\ now = SecPerDay
  /\ db = EmptyMap
  /\ ts_db = EmptyMap
  /\ \/ /\ disk = [target |-> 0, tmp |-> 0]
        /\ inodes = [i \in 1..NumInodes |-> <<>>]
     \/ /\ disk = [target |-> 1, tmp |-> 0]
        /\ \E c \in RepoFiles : inodes = [i \in 1..NumInodes |-> IF i = 1 THEN c ELSE <<>>]
  /\ th = [t \in Threads |-> IdleTh]
  /\ persisted = [c \in Channels |-> {}]
  /\ calls = 0
  /\ d_pc = "off"
  /\ d_anchors = <<>>
  /\ d_scan = 0
  /\ d_take = 0
  /\ d_S = {}
  /\ d_seen = {}
  /\ d_res1 = <<>>
  /\ d_res2 = <<>>
  /\ w_pc = "off"
  /\ w_take = 0
  /\ w_source = <<>>
  /\ w_seen = {}
  /\ w_new = <<>>
  /\ w_i = 0
  /\ w_posted = {}
  /\ w_failed = {}
  /\ w_last = "none"
  /\ w_unsaved = {}
  /\ w_ticks = 0
  /\ w_obs = EmptyMap
  /\ w_dup = {}
  /\ w_always = {}
  /\ s_cfg = <<>>
  /\ s_file = <<>>
  /\ s_threads = EmptyMap
  /\ s_stops = EmptyMap
  /\ s_thr = [i \in 1..MaxThreads |-> FreeThread]
  /\ s_chan = EmptyMap
  /\ s_reply = "none"
  /\ r_pc = "file"
  /\ r_last = NoCall
  /\ l_pc = "off"
  /\ l_stop = FALSE
  /\ l_interval = 0
  /\ l_left = 0
  /\ l_stop_at = "none"
  /\ l_err = "none"
  /\ l_peer = "off"
  /\ a_reg = ""
  /\ a_seen = {}
  /\ a_cur = {}
  /\ a_sent = {}
  /\ a_again = {}
  /\ web = NoWeb

notRepo == <<th, persisted, dedupVars, watchVars, supVars, loopVars, readdVars, webVars>>

\* state_repo = JsonStateRepo(path=STATE_PATH)
RLoad ==
  /\ r_pc = "file"
  /\ LET r == NewRepo(variant, disk, inodes)
     IN /\ db' = r.db
        /\ ts_db' = r.ts_db
        /\ r_pc' = IF r.raised THEN "raised" ELSE "up"
        /\ r_last' = [NoCall EXCEPT !.op = "load", !.raised = r.raised]
  /\ UNCHANGED <<variant, now, disk, inodes, calls>>
  /\ UNCHANGED notRepo

\* save_seen(channel_id, seen_sorted); the file is written
RSaveSeen(ch, S) ==
  /\ r_pc = "up"
  /\ \E ok \in {TRUE} :
       LET r == IF variant = "sreality"
                THEN SaveSeen(db, ts_db, disk, inodes, ch, S, now, ok)
                ELSE BezSaveSeen(db, ts_db, disk, inodes, ch, S, ok)
       IN /\ db' = r.db
          /\ ts_db' = r.ts_db
          /\ disk' = r.disk
          /\ inodes' = r.inodes
          /\ r_last' = [NoCall EXCEPT !.op = "save", !.ch = ch, !.arg = S,
                                      !.gone = GetSeen(db, ch) \ GetSeen(r.db, ch),
                                      !.raised = r.raised]
  /\ calls < MaxCalls
  /\ calls' = calls + 1
  /\ UNCHANGED <<variant, now, r_pc>>
  /\ UNCHANGED notRepo

\* prune_old(channel_id, max_age_days), manager.py; the file is written
RPruneOld(ch, days) ==
  /\ r_pc = "up"
  /\ variant = "sreality"
  /\ \E ok \in {TRUE} :
       LET r == PruneOld(db, ts_db, disk, inodes, ch, now, days, ok)
       IN /\ db' = r.db
          /\ ts_db' = r.ts_db
          /\ disk' = r.disk
          /\ inodes' = r.inodes
          /\ r_last' = [NoCall EXCEPT !.op = "prune", !.ch = ch, !.days = days,
                                      !.gone = DOMAIN Get(ts_db, ch, EmptyMap)
                                                 \ DOMAIN Get(r.ts_db, ch, EmptyMap),
                                      !.back = GetSeen(r.db, ch) \ GetSeen(db, ch),
                                      !.epoch = {k \in DOMAIN Get(ts_db, ch, EmptyMap) :
                                                   ts_db[ch][k] = 0 /\ k \notin GetSeen(r.db, ch)},
                                      !.raised = r.raised]
  /\ calls < MaxCalls
  /\ calls' = calls + 1
  /\ UNCHANGED <<variant, now, r_pc>>
  /\ UNCHANGED notRepo

\* time passes
RClockTick ==
  /\ now < (MaxDays + 1) * SecPerDay
  /\ now' = now + SecPerDay
  /\ UNCHANGED <<variant, db, ts_db, disk, inodes, calls, repoVars>>
  /\ UNCHANGED notRepo

RepoNext ==
  \/ RLoad
  \/ \E ch \in Channels, S \in SUBSET RKeys : RSaveSeen(ch, S)
  \/ \E ch \in Channels, days \in AgeDays : RPruneOld(ch, days)
  \/ RClockTick

SpecRepo == RepoInit /\ [][RepoNext]_vars

\* ------------------------------------------------------------------------
\* One watcher thread and its stop event (SpecLoop): Watcher.run of
\* watcher.py and BezWatcher.run of bez_watcher.py, with the sleep loop in
\* its one-second steps
\* ------------------------------------------------------------------------
\* a sleep loop that does not look at the stop event
SleepPollDeaf(v, stop, left) ==
  IF left = 0 THEN "head" ELSE "nap"

\* for _ in range(self.interval_sec): if self.stop.is_set(): break (watcher.py)
\* or return (bez_watcher.py); time.sleep(1)
SleepPoll(v, stop, left) ==
  IF left = 0 THEN "head"
  ELSE IF stop THEN (IF v = "sreality" THEN "head" ELSE "done")
  ELSE "nap"

LoopInit ==
  /\ variant \in Variants
  /\ now = 0
  /\ db = EmptyMap
  /\ ts_db = EmptyMap
  /\ disk = [target |-> 0, tmp |-> 0]
  /\ inodes = [i \in 1..NumInodes |-> <<>>]
  /\ th = [t \in Threads |-> IdleTh]
  /\ persisted = [c \in Channels |-> {}]
  /\ calls = 0
  /\ d_pc = "off"
  /\ d_anchors = <<>>
  /\ d_scan = 0
  /\ d_take = 0
  /\ d_S = {}
  /\ d_seen = {}
  /\ d_res1 = <<>>
  /\ d_res2 = <<>>
  /\ w_pc = "off"
  /\ w_take = 0
  /\ w_source = <<>>
  /\ w_seen = {}
  /\ w_new = <<>>
  /\ w_i = 0
  /\ w_posted = {}
  /\ w_failed = {}
  /\ w_last = "none"
  /\ w_unsaved = {}
  /\ w_ticks = 0
  /\ w_obs = EmptyMap
  /\ w_dup = {}
  /\ w_always = {}
  /\ s_cfg = <<>>
  /\ s_file = <<>>
  /\ s_threads = EmptyMap
  /\ s_stops = EmptyMap
  /\ s_thr = [i \in 1..MaxThreads |-> FreeThread]
  /\ s_chan = EmptyMap
  /\ s_reply = "none"
  /\ r_pc = "off"
  /\ r_last = NoCall
  /\ l_pc = "head"
  /\ l_stop = FALSE
  /\ l_interval \in 1..MaxSleep
  /\ l_left = 0
  /\ l_stop_at = "none"
  /\ l_err = "none"
  /\ l_peer = "head"
  /\ a_reg = ""
  /\ a_seen = {}
  /\ a_cur = {}
  /\ a_sent = {}
  /\ a_again = {}
  /\ web = NoWeb

notLoop == <<storeVars, dedupVars, watchVars, supVars, repoVars, readdVars, webVars>>

\* a loop in which what extract_new_listings raises is not caught
AfterRaiseEscapes(v, at) ==
  IF at = "prune" THEN "extract"
  ELSE IF at = "extract" THEN "done"
  ELSE IF at = "deliver" THEN (IF v = "sreality" THEN "save" ELSE "sleep")
  ELSE "sleep"

\* where run() goes on after the step `at` of a tick has raised: the prune /
\* reload block swallows (except Exception: pass) and the tick goes on; the
\* handler of the tick reports and the sleep loop follows; watcher.py swallows
\* a failing post and goes on to the save, in bez_watcher.py the post is
\* under the handler of the tick; _save_seen swallows
AfterRaise(v, at) ==
  IF at = "prune" THEN "extract"
  ELSE IF at = "extract" THEN "sleep"
  ELSE IF at = "deliver" THEN (IF v = "sreality" THEN "save" ELSE "sleep")
  ELSE "sleep"

\* while not self.stop.is_set(): the next tick begins, or run() returns
LHead ==
  /\ l_pc = "head"
  /\ l_pc' = IF l_stop THEN "done" ELSE "prune"
  /\ UNCHANGED <<l_stop, l_interval, l_left, l_stop_at, l_err, l_peer>>
  /\ UNCHANGED notLoop

\* prune and reload of the seen set; what it raises is swallowed
LPrune ==
  /\ l_pc = "prune"
  /\ \E raised \in BOOLEAN :
       /\ l_pc' = IF raised THEN AfterRaise(variant, "prune") ELSE "extract"
       /\ l_err' = IF raised THEN "prune" ELSE l_err
  /\ UNCHANGED <<l_stop, l_interval, l_left, l_stop_at, l_peer>>
  /\ UNCHANGED notLoop

\* extract_new_listings returns new items, returns none, or raises; the
\* sleep loop is entered with range(self.interval_sec)
LExtract ==
  /\ l_pc = "extract"
  /\ \E res \in {"new", "none", "raised"} :
       /\ l_pc' = IF res = "new" THEN "deliver"
                  ELSE IF res = "none" THEN "sleep"
                  ELSE AfterRaise(variant, "extract")
       /\ l_left' = IF l_pc' = "sleep" THEN l_interval ELSE l_left
       /\ l_err' = IF res = "raised" THEN "extract" ELSE l_err
  /\ UNCHANGED <<l_stop, l_interval, l_stop_at, l_peer>>
  /\ UNCHANGED notLoop

\* the new items are posted; a failing post is swallowed (watcher.py) or
\* ends the tick (bez_watcher.py)
LDeliver ==
  /\ l_pc = "deliver"
  /\ \E ok \in BOOLEAN :
       /\ l_pc' = IF ok THEN "save" ELSE AfterRaise(variant, "deliver")
       /\ l_left' = IF l_pc' = "sleep" THEN l_interval ELSE l_left
       /\ l_err' = IF ok THEN l_err ELSE "deliver"
  /\ UNCHANGED <<l_stop, l_interval, l_stop_at, l_peer>>
  /\ UNCHANGED notLoop

\* self._save_seen(), then the sleep loop
LSave ==
  /\ l_pc = "save"
  /\ \E raised \in BOOLEAN :
       /\ l_pc' = IF raised THEN AfterRaise(variant, "save") ELSE "sleep"
       /\ l_err' = IF raised THEN "save" ELSE l_err
  /\ l_left' = l_interval
  /\ UNCHANGED <<l_stop, l_interval, l_stop_at, l_peer>>
  /\ UNCHANGED notLoop

\* one pass of the sleep loop up to time.sleep(1)
LSleepPoll ==
  /\ l_pc = "sleep"
  /\ l_pc' = SleepPoll(variant, l_stop, l_left)
  /\ UNCHANGED <<l_stop, l_interval, l_left, l_stop_at, l_err, l_peer>>
  /\ UNCHANGED notLoop

\* time.sleep(1) returns
LNap ==
  /\ l_pc = "nap"
  /\ l_pc' = "sleep"
  /\ l_left' = l_left - 1
  /\ UNCHANGED <<l_stop, l_interval, l_stop_at, l_err, l_peer>>
  /\ UNCHANGED notLoop

\* the supervisor sets the stop event: self.stops[cid].set()
LSetStop ==
  /\ l_pc # "done"
  /\ ~l_stop
  /\ l_stop' = TRUE
  /\ l_stop_at' = l_pc
  /\ UNCHANGED <<l_pc, l_interval, l_left, l_err, l_peer>>
  /\ UNCHANGED notLoop

\* manager.py _cmd_interval: th.interval_sec = sec on the running thread
LSetInterval(sec) ==
  /\ variant = "sreality"
  /\ l_pc # "done"
  /\ sec # l_interval
  /\ l_interval' = sec
  /\ UNCHANGED <<l_pc, l_stop, l_left, l_stop_at, l_err, l_peer>>
  /\ UNCHANGED notLoop

\* the thread of another watcher, whose stop event nobody sets, goes round
\* its own run(): head of the loop, tick, sleep loop
LPeerStep ==
  /\ l_peer' = IF l_peer = "head" THEN "tick"
               ELSE IF l_peer = "tick" THEN "sleep" ELSE "head"
  /\ UNCHANGED <<l_pc, l_stop, l_interval, l_left, l_stop_at, l_err>>
  /\ UNCHANGED notLoop

\* the steps of the thread itself
LoopStep ==
  \/ LHead
  \/ LPrune
  \/ LExtract
  \/ LDeliver
  \/ LSave
  \/ LSleepPoll
  \/ LNap

LoopNext ==
  \/ LoopStep
  \/ LSetStop
  \/ \E sec \in 0..MaxSleep : LSetInterval(sec)
  \/ LPeerStep

SpecLoop == LoopInit /\ [][LoopNext]_vars

\* every thread is scheduled and every call it makes returns
SpecLoopFair == SpecLoop /\ WF_vars(LoopStep) /\ WF_vars(LPeerStep)

\* C18: prompt cooperative stop. Once the stop event is set the loop begins
\* no new tick and no further time.sleep(1) of the sleep phase, and the
\* thread eventually ends.
C18_PromptStop ==
  /\ [][l_stop /\ l_pc' # l_pc =>
          /\ l_pc' \notin {"prune", "nap"}
          /\ l_pc = "head" => l_pc' = "done"]_vars
  /\ (l_stop ~> l_pc = "done")

\* C18 witness: the stop event was set while the thread was in time.sleep(1),
\* and the thread has ended with iterations of its sleep loop left
C18_Witness ==
  /\ l_pc = "done"
  /\ l_stop_at = "nap"
  /\ l_left >= 1

\* ------------------------------------------------------------------------
\* Properties of the store of one caller
\* ------------------------------------------------------------------------
TsMap(tsdb, ch) == Get(tsdb, ch, EmptyMap)

\* C11: TTL eviction. After prune_old(key, H) run at time now, every entry
\* of that key with now - lastSeen > H is absent from the timestamp map and
\* from get_seen(key); every entry with now - lastSeen <= H is still in both,
\* with its timestamp unchanged.
C11_TtlEviction ==
  [][\A ch \in Channels, days \in AgeDays :
       RPruneOld(ch, days) =>
         \A k \in DOMAIN TsMap(ts_db, ch) :
           IF now - ts_db[ch][k] > days * SecPerDay
           THEN /\ k \notin DOMAIN TsMap(ts_db', ch)
                /\ k \notin GetSeen(db', ch)
           ELSE /\ k \in DOMAIN TsMap(ts_db', ch)
                /\ ts_db'[ch][k] = ts_db[ch][k]
                /\ k \in GetSeen(db', ch)]_vars

\* C11 witness: a prune has evicted an entry older than the horizon and has
\* kept an entry whose age is exactly the horizon
C11_Witness ==
  /\ r_last.op = "prune"
  /\ r_last.gone # {}
  /\ \E k \in DOMAIN TsMap(ts_db, r_last.ch) :
       /\ now - ts_db[r_last.ch][k] = r_last.days * SecPerDay
       /\ k \in GetSeen(db, r_last.ch)

\* C12: pruning is idempotent and monotonic. Running prune_old(key, H) a
\* second time at the same time leaves the store and the state file as the
\* first run left them, and a prune_old call adds no key to get_seen(key)
\* that get_seen(key) did not return right before the call.
C12_PruneIdempotentMonotonic ==
  [][\A ch \in Channels, days \in AgeDays :
       RPruneOld(ch, days) =>
         LET again == PruneOld(db', ts_db', disk', inodes', ch, now', days, TRUE)
         IN /\ again.db = db'
            /\ again.ts_db = ts_db'
            /\ LoadJson(again.disk, again.inodes, "target") = LoadJson(disk', inodes', "target")
            /\ GetSeen(db', ch) \subseteq GetSeen(db, ch)]_vars

\* the state file is missing, empty, cut short, no mapping at the top level,
\* or holds a timestamp that is no number
UnexpectedFile ==
  \/ disk.target = 0
  \/ ~JsonValid(FileAt(disk, inodes, "target"))
  \/ \E ch \in DOMAIN LoadJson(disk, inodes, "target") :
       LoadJson(disk, inodes, "target")[ch].fmt = "dict_nonnum"

\* C13: loading never aborts startup. Constructing the store does not raise,
\* and from a state file that is missing, empty, not valid JSON or of an
\* unexpected shape it gives a store whose get_seen is empty for every key.
C13_LoadNeverAborts ==
  r_last.op = "load" =>
    /\ r_pc = "up"
    /\ ~r_last.raised
    /\ UnexpectedFile => \A ch \in Channels : GetSeen(db, ch) = {}

\* the ids of the list partitions of the state file
ListIds(ch) ==
  LET raw == LoadJson(disk, inodes, "target")
  IN IF ch \in DOMAIN raw /\ raw[ch].fmt = "list"
     THEN {raw[ch].ids[i] : i \in 1..Len(raw[ch].ids)}
     ELSE {}

FileKeys(dsk, ino, ch) ==
  LET raw == LoadJson(dsk, ino, "target")
  IN IF ch \notin DOMAIN raw THEN {}
     ELSE IF raw[ch].fmt = "list" THEN {raw[ch].ids[i] : i \in 1..Len(raw[ch].ids)}
     ELSE IF raw[ch].fmt = "dict" THEN DOMAIN raw[ch].map
     ELSE {}

\* C15: save_seen(key, S) replaces the full set of that key and stamps all
\* members with now. Right after the call get_seen(key), the timestamp map
\* of the key and the key's partition of the state file hold exactly the
\* members of S, each with lastSeen equal to the time of the call.
C15_SaveReplacesSet ==
  [][\A ch \in Channels, S \in SUBSET RKeys :
       RSaveSeen(ch, S) =>
         /\ GetSeen(db', ch) = S
         /\ FileKeys(disk', inodes', ch) = S
         /\ variant = "sreality" =>
              /\ DOMAIN TsMap(ts_db', ch) = S
              /\ \A k \in S : ts_db'[ch][k] = now]_vars

\* C16: prune_old(key, H) and save_seen(key, S) affect that key only. For
\* every other key the set given by get_seen and all of its timestamps are
\* the same after the call as before it.
C16_OtherKeysUntouched ==
  [][\A ch \in Channels :
       (\/ \E S \in SUBSET RKeys : RSaveSeen(ch, S)
        \/ \E days \in AgeDays : RPruneOld(ch, days)) =>
         \A other \in Channels \ {ch} :
           /\ GetSeen(db', other) = GetSeen(db, other)
           /\ TsMap(ts_db', other) = TsMap(ts_db, other)]_vars

\* C16 witness: a prune_old has evicted entries of its key while another
\* key holds an entry that is older than the horizon of that call
C16_Witness ==
  /\ r_last.op = "prune"
  /\ r_last.gone # {}
  /\ \E other \in Channels \ {r_last.ch} :
       \E k \in GetSeen(db, other) :
         /\ k \in DOMAIN TsMap(ts_db, other)
         /\ now - ts_db[other][k] > r_last.days * SecPerDay

\* ------------------------------------------------------------------------
\* Properties of the supervisor's loops
\* ------------------------------------------------------------------------
\* C17: an interval change reaches a running watcher only by restart. After
\* the interval command the loop registered for the channel is one that was
\* constructed with the new interval, the loop that was registered before
\* has its stop event set or has exited, and no command changes the
\* interval_sec of a loop object while its thread is alive.
C17_IntervalOnlyByRestart ==
  [][/\ \A i \in 1..MaxThreads :
          s_thr'[i].alive => s_thr'[i].interval_sec = s_thr'[i].interval0
     /\ \A name \in Names, sec \in SetIntervals :
          (CmdInterval(name, sec) \/ \E exited \in BOOLEAN : BezCmdInterval(name, sec, exited)) =>
            LET c == CfgGet(s_cfg, name).channel_id
            IN /\ c \in DOMAIN s_threads'
               /\ s_thr'[s_threads'[c]].alive
               /\ s_thr'[s_threads'[c]].interval0 = NewThread(c, sec).interval0
               /\ c \in DOMAIN s_threads /\ s_thr[s_threads[c]].alive =>
                    \/ s_thr'[s_threads[c]].stop
                    \/ ~s_thr'[s_threads[c]].alive
                    \/ s_thr'[s_threads[c]] = NewThread(c, sec)]_vars

\* the channel is archived, or (manager.py, which asks) conversations_info
\* fails for it
Retired(c, down) ==
  \/ c \in DOMAIN s_chan /\ s_chan[c].archived
  \/ variant = "sreality" /\ c \in down

\* C19: boot reconstruction. When the supervisor is constructed, one loop is
\* started for each entry of the config file whose channel is not retired,
\* and none for an entry whose channel is archived or whose check fails.
C19_BootReconstruction ==
  [][\A down \in SUBSET Channels :
       Boot(down) =>
         LET eligible == {i \in 1..Len(s_file) : ~Retired(s_file[i].channel_id, down)}
         IN /\ Cardinality({j \in 1..MaxThreads : s_thr'[j].alive}) = Cardinality(eligible)
            /\ \A i \in 1..Len(s_file) :
                 LET c == s_file[i].channel_id
                 IN IF i \in eligible
                    THEN c \in DOMAIN s_threads' /\ LiveOn(s_thr', c) = {s_threads'[c]}
                    ELSE c \notin DOMAIN s_threads' /\ LiveOn(s_thr', c) = {}]_vars

\* ------------------------------------------------------------------------
\* A watcher is added, runs, is removed and is added again under the same
\* name (SpecReadd): _cmd_add / _cmd_remove of both managers, the ticks of
\* the loop, and the seen store, whose partitions are named by channel_id
\* (state_key = state_key or channel_id); nothing fails and no TTL passes
\* ------------------------------------------------------------------------
AName == "a"
InitialTake == 10

\* a tick that saves the keys of the whole page with the set
TickTakeSavesPage(d, c, source, take) ==
  LET r == ExtractNewListings(source, GetSeen(d, c), ScanLimit, take)
      page == KeysOf(ExtractListingLinks(source, ScanLimit))
  IN [posted |-> KeysOf(r.new), seen |-> r.seen,
      db |-> IF r.new # <<>> THEN MemorySaveSeen(d, c, r.seen \cup page) ELSE d]

\* what one tick posts and saves for the loop on channel c with
\* burst_take = take: the seen set is read from the store, the new items are
\* posted, the set is saved
TickTake(d, c, source, take) ==
  LET r == ExtractNewListings(source, GetSeen(d, c), ScanLimit, take)
  IN [posted |-> KeysOf(r.new), seen |-> r.seen,
      db |-> IF r.new # <<>> THEN MemorySaveSeen(d, c, r.seen) ELSE d]

\* the tick of a loop constructed with the default burst_take
TickOf(d, c, source) == TickTake(d, c, source, BurstTake)

\* bez_manager.py _send_initial_batch(cid, url, seen_ids=set(), take=10)
InitialBatch(source) ==
  KeysOf(ExtractNewListings(source, {}, ScanLimit, InitialTake).new)

ReaddInit ==
  /\ variant \in Variants
  /\ now = 0
  /\ db = EmptyMap
  /\ ts_db = EmptyMap
  /\ disk = [target |-> 0, tmp |-> 0]
  /\ inodes = [i \in 1..NumInodes |-> <<>>]
  /\ th = [t \in Threads |-> IdleTh]
  /\ persisted = [c \in Channels |-> {}]
  /\ calls = 0
  /\ d_pc = "off"
  /\ d_anchors = <<>>
  /\ d_scan = 0
  /\ d_take = 0
  /\ d_S = {}
  /\ d_seen = {}
  /\ d_res1 = <<>>
  /\ d_res2 = <<>>
  /\ w_pc = "off"
  /\ w_take = 0
  /\ w_source \in WPages \ {<<>>}
  /\ w_seen = {}
  /\ w_new = <<>>
  /\ w_i = 0
  /\ w_posted = {}
  /\ w_failed = {}
  /\ w_last = "none"
  /\ w_unsaved = {}
  /\ w_ticks = 0
  /\ w_obs = EmptyMap
  /\ w_dup = {}
  /\ w_always = {}
  /\ s_cfg = <<>>
  /\ s_file = <<>>
  /\ s_threads = EmptyMap
  /\ s_stops = EmptyMap
  /\ s_thr = [i \in 1..MaxThreads |-> FreeThread]
  /\ s_chan = EmptyMap
  /\ s_reply = "none"
  /\ r_pc = "off"
  /\ r_last = NoCall
  /\ l_pc = "off"
  /\ l_stop = FALSE
  /\ l_interval = 0
  /\ l_left = 0
  /\ l_stop_at = "none"
  /\ l_err = "none"
  /\ l_peer = "off"
  /\ a_reg = ""
  /\ a_seen = {}
  /\ a_cur = {}
  /\ a_sent = {}
  /\ a_again = {}
  /\ web = NoWeb

notReadd ==
  <<variant, now, ts_db, disk, inodes, th, persisted, calls, dedupVars, watchVars,
    s_cfg, s_file, s_threads, s_stops, s_thr, s_reply, repoVars, loopVars, webVars>>

\* manager.py _cmd_add: the loop runs on the command's channel (--here) or on
\* a new channel sreality-<name>, which Slack refuses while a channel of that
\* name exists; Watcher.__init__ reads the channel's seen set from the store
AAdd(c, add_here) ==
  /\ variant = "sreality"
  /\ a_reg = ""
  /\ IF add_here
     THEN s_chan' = Here(s_chan, c)
     ELSE /\ c \notin DOMAIN s_chan
          /\ NamedChannels(s_chan, AName) = {}
          /\ s_chan' = Put(s_chan, c, [name |-> AName, archived |-> FALSE])
  /\ a_reg' = c
  /\ a_seen' = GetSeen(db, c)
  /\ a_cur' = {}
  /\ UNCHANGED <<db, a_sent, a_again>>
  /\ UNCHANGED notReadd

\* bez_manager.py _cmd_add / _cmd_add_here: channel bez-<name> (the one of
\* that name, else a new one) or the command's channel; the first batch is
\* posted from an empty seen set, which is then dropped; BezWatcher.__init__
\* reads the channel's seen set from the store
ABezAdd(c, add_here) ==
  /\ variant = "bez"
  /\ a_reg = ""
  /\ IF add_here
     THEN /\ ~(c \in DOMAIN s_chan /\ s_chan[c].archived)
          /\ s_chan' = Here(s_chan, c)
     ELSE IF NamedChannels(s_chan, AName) # {}
          THEN c \in NamedChannels(s_chan, AName) /\ s_chan' = s_chan
          ELSE c \notin DOMAIN s_chan
               /\ s_chan' = Put(s_chan, c, [name |-> AName, archived |-> FALSE])
  /\ a_reg' = c
  /\ a_cur' = InitialBatch(w_source)
  /\ a_again' = a_again \cup (InitialBatch(w_source) \cap a_sent)
  /\ a_seen' = GetSeen(db, c)
  /\ UNCHANGED <<db, a_sent>>
  /\ UNCHANGED notReadd

\* one tick of the loop of the entry
ATick ==
  /\ a_reg # ""
  /\ LET r == TickOf(db, a_reg, w_source)
     IN /\ db' = r.db
        /\ a_seen' = r.seen
        /\ a_cur' = a_cur \cup r.posted
        /\ a_again' = a_again \cup (r.posted \cap a_sent)
  /\ UNCHANGED <<a_reg, a_sent, s_chan>>
  /\ UNCHANGED notReadd

\* _cmd_remove: the loop is stopped and the entry deleted; manager.py leaves
\* the channel, bez_manager.py renames and archives it unless Slack refuses;
\* neither touches the state repo
ARemove(slack_ok) ==
  /\ a_reg # ""
  /\ variant = "sreality" => slack_ok
  /\ s_chan' = IF variant = "bez" /\ slack_ok
               THEN Put(s_chan, a_reg, [name |-> OtherName, archived |-> TRUE])
               ELSE s_chan
  /\ a_reg' = ""
  /\ a_seen' = {}
  /\ a_sent' = a_sent \cup a_cur
  /\ a_cur' = {}
  /\ UNCHANGED <<db, a_again>>
  /\ UNCHANGED notReadd

ReaddNext ==
  \/ \E c \in Channels, h \in BOOLEAN : AAdd(c, h)
  \/ \E c \in Channels, h \in BOOLEAN : ABezAdd(c, h)
  \/ ATick
  \/ \E ok \in BOOLEAN : ARemove(ok)

SpecReadd == ReaddInit /\ [][ReaddNext]_vars

\* C20: removal keeps dedup history. Removing a watcher leaves the seen store
\* as it is, and a watcher added again under the same name, with the source
\* unchanged, posts no item that a removed watcher of that name had posted.
C20_RemovalKeepsHistory ==
  /\ [][(\E ok \in BOOLEAN : ARemove(ok)) => db' = db]_vars
  /\ [](a_again = {})

\* ------------------------------------------------------------------------
\* Further properties of the watcher loop (SpecWatch)
\* ------------------------------------------------------------------------
\* keys of the candidates the tick reads from the source
PageKeys == KeysOf(ExtractListingLinks(w_source, ScanLimit))

\* C21: timestamp refresh. At the end of every tick whose extraction returned
\* (with or without new items) every entry that was in the seen set and whose
\* item is on the page has its last-seen timestamp at the time of the tick,
\* and the entries whose items are not on the page keep their timestamps.
C21_TimestampRefresh ==
  [][(variant = "sreality" /\ w_last' = "ok" /\ w_pc \in {"extract", "save"} /\ w_pc' = "sleep") =>
       /\ \A k \in GetSeen(db, WKey) \cap PageKeys :
            k \in DOMAIN TsMap(ts_db', WKey) /\ ts_db'[WKey][k] = now
       /\ \A k \in GetSeen(db, WKey) \ PageKeys :
            k \in DOMAIN TsMap(ts_db', WKey) /\ ts_db'[WKey][k] = ts_db[WKey][k]]_vars

\* ------------------------------------------------------------------------
\* A watcher works off a page (SpecBacklog): the loop of Watcher.run /
\* BezWatcher.run with burst_take = w_take on a source that keeps its page,
\* from a store that holds d_S for the watcher's key; nothing fails and no
\* TTL passes
\* ------------------------------------------------------------------------
BacklogInit ==
  /\ variant = "sreality"
  /\ now = 0
  /\ ts_db = EmptyMap
  /\ disk = [target |-> 0, tmp |-> 0]
  /\ inodes = [i \in 1..NumInodes |-> <<>>]
  /\ th = [t \in Threads |-> IdleTh]
  /\ persisted = [c \in Channels |-> {}]
  /\ calls = 0
  /\ d_pc = "off"
  /\ d_anchors = <<>>
  /\ d_scan = 0
  /\ d_take = 0
  /\ d_S \in {S \in SUBSET AllKeys : Cardinality(S) <= MaxSeen}
  /\ db = IF d_S = {} THEN EmptyMap ELSE Put(EmptyMap, WKey, d_S)
  /\ d_seen = {}
  /\ d_res1 = <<>>
  /\ d_res2 = <<>>
  /\ w_pc = "tick"
  /\ w_take \in 1..MaxTake
  /\ w_source \in SeqsUpTo(Items, MaxLen)
  /\ w_seen = d_S
  /\ w_new = <<>>
  /\ w_i = 0
  /\ w_posted = {}
  /\ w_failed = {}
  /\ w_last = "none"
  /\ w_unsaved = {}
  /\ w_ticks = 0
  /\ w_obs = EmptyMap
  /\ w_dup = {}
  /\ w_always = {}
  /\ s_cfg = <<>>
  /\ s_file = <<>>
  /\ s_threads = EmptyMap
  /\ s_stops = EmptyMap
  /\ s_thr = [i \in 1..MaxThreads |-> FreeThread]
  /\ s_chan = EmptyMap
  /\ s_reply = "none"
  /\ r_pc = "off"
  /\ r_last = NoCall
  /\ l_pc = "off"
  /\ l_stop = FALSE
  /\ l_interval = 0
  /\ l_left = 0
  /\ l_stop_at = "none"
  /\ l_err = "none"
  /\ l_peer = "off"
  /\ a_reg = ""
  /\ a_seen = {}
  /\ a_cur = {}
  /\ a_sent = {}
  /\ a_again = {}
  /\ web = NoWeb

\* one pass of the loop body: reload, extract, post, save
BTick ==
  /\ w_pc = "tick"
  /\ w_ticks < MaxLen
  /\ LET r == TickTake(db, WKey, w_source, w_take)
     IN /\ db' = r.db
        /\ w_seen' = r.seen
        /\ w_posted' = w_posted \cup r.posted
        /\ w_last' = "ok"
  /\ w_ticks' = w_ticks + 1
  /\ w_pc' = "sleep"
  /\ UNCHANGED <<w_take, w_source, w_new, w_i, w_failed, w_unsaved, w_obs, w_dup, w_always>>
  /\ UNCHANGED <<variant, now, ts_db, disk, inodes, th, persisted, calls>>
  /\ UNCHANGED <<dedupVars, supVars, repoVars, loopVars, readdVars, webVars>>

\* self.stop.wait(self.interval_sec) times out
BSleepDone ==
  /\ w_pc = "sleep"
  /\ w_pc' = "tick"
  /\ UNCHANGED <<w_take, w_source, w_seen, w_new, w_i, w_posted, w_failed, w_last, w_unsaved, w_ticks, w_obs, w_dup, w_always>>
  /\ UNCHANGED <<storeVars, dedupVars, supVars, repoVars, loopVars, readdVars, webVars>>

BacklogNext == BTick \/ BSleepDone

SpecBacklog == BacklogInit /\ [][BacklogNext]_vars

\* the keys of the candidates of the page that the store did not hold when
\* the watcher started
NovelKeys == PageKeys \ d_S

\* C28: deferred candidates are not dropped. A novel candidate is in the seen
\* set of the store only once it has been delivered, so a tick that reached
\* its limit before it leaves it novel; and with N novel candidates and
\* limit k >= 1 all N have been delivered once k times the number of ticks
\* is at least N, that is within ceil(N/k) ticks.
C28_DeferredDelivered ==
  /\ GetSeen(db, WKey) \cap NovelKeys \subseteq w_posted
  /\ w_ticks * w_take >= Cardinality(NovelKeys) => NovelKeys \subseteq w_posted

\* C28 witness: of two novel candidates the first tick with limit 1 delivered
\* one and deferred the other, and the second tick has delivered that one
C28_Witness ==
  /\ w_ticks = 2 /\ w_take = 1
  /\ Cardinality(NovelKeys) = 2
  /\ d_S # {}
  /\ NovelKeys = w_posted

\* ------------------------------------------------------------------------
\* A watcher runs for days (SpecAging): whole ticks of Watcher.run on the
\* JsonStateRepo of manager.py (prune_old with the 3-day TTL, reload,
\* extraction, posts, save_seen) and of BezWatcher.run on the store of
\* bez_manager.py, which has no prune_old; the page may differ from tick to
\* tick, the clock moves in days, nothing fails and nothing is restarted
\* ------------------------------------------------------------------------
\* the pages of the source: items at one price, each at most once
APages ==
  {p \in SeqsUpTo({[id |-> i, price |-> 1] : i \in ItemIds}, MaxPage) :
     \A i, j \in 1..Len(p) : p[i].id = p[j].id => i = j}

AgingInit ==
  /\ variant \in Variants
  /\ now = 0
  /\ ts_db = EmptyMap
  /\ disk = [target |-> 0, tmp |-> 0]
  /\ inodes = [i \in 1..NumInodes |-> <<>>]
  /\ th = [t \in Threads |-> IdleTh]
  /\ persisted = [c \in Channels |-> {}]
  /\ calls = 0
  /\ d_pc = "off"
  /\ d_anchors = <<>>
  /\ d_scan = 0
  /\ d_take = 0
  /\ d_S = {}
  /\ db = EmptyMap
  /\ d_seen = {}
  /\ d_res1 = <<>>
  /\ d_res2 = <<>>
  /\ w_pc = "tick"
  /\ w_take = BurstTake
  /\ w_source = <<>>
  /\ w_seen = {}
  /\ w_new = <<>>
  /\ w_i = 0
  /\ w_posted = {}
  /\ w_failed = {}
  /\ w_last = "none"
  /\ w_unsaved = {}
  /\ w_ticks = 0
  /\ w_obs = EmptyMap
  /\ w_dup = {}
  /\ w_always = {}
  /\ s_cfg = <<>>
  /\ s_file = <<>>
  /\ s_threads = EmptyMap
  /\ s_stops = EmptyMap
  /\ s_thr = [i \in 1..MaxThreads |-> FreeThread]
  /\ s_chan = EmptyMap
  /\ s_reply = "none"
  /\ r_pc = "off"
  /\ r_last = NoCall
  /\ l_pc = "off"
  /\ l_stop = FALSE
  /\ l_interval = 0
  /\ l_left = 0
  /\ l_stop_at = "none"
  /\ l_err = "none"
  /\ l_peer = "off"
  /\ a_reg = ""
  /\ a_seen = {}
  /\ a_cur = {}
  /\ a_sent = {}
  /\ a_again = {}
  /\ web = NoWeb

\* one pass of the loop body at the current time, the source listing page p
ATickAt(p) ==
  /\ w_pc = "tick"
  /\ LET pr == IF variant = "sreality"
               THEN PruneOld(db, ts_db, disk, inodes, WKey, now, TtlDays, TRUE)
               ELSE [db |-> db, ts_db |-> ts_db, disk |-> disk, inodes |-> inodes,
                     raised |-> FALSE]
         r == ExtractNewListings(p, GetSeen(pr.db, WKey), ScanLimit, w_take)
         sv == IF r.new = <<>> THEN pr
               ELSE IF variant = "sreality"
               THEN SaveSeen(pr.db, pr.ts_db, pr.disk, pr.inodes, WKey, r.seen, now, TRUE)
               ELSE BezSaveSeen(pr.db, pr.ts_db, pr.disk, pr.inodes, WKey, r.seen, TRUE)
         listed == KeysOf(ExtractListingLinks(p, ScanLimit))
     IN /\ db' = sv.db
        /\ ts_db' = sv.ts_db
        /\ disk' = sv.disk
        /\ inodes' = sv.inodes
        /\ w_seen' = r.seen
        /\ w_new' = r.new
        /\ w_posted' = w_posted \cup KeysOf(r.new)
        /\ w_dup' = w_dup \cup (KeysOf(r.new) \cap w_posted)
        /\ w_obs' = [k \in (DOMAIN w_obs) \cup listed |-> IF k \in listed THEN now ELSE w_obs[k]]
        /\ w_always' = IF w_last = "none" THEN listed ELSE w_always \cap listed
  /\ w_source' = p
  /\ w_last' = "ok"
  /\ w_pc' = "sleep"
  /\ UNCHANGED <<w_take, w_i, w_failed, w_unsaved, w_ticks>>
  /\ UNCHANGED <<variant, now, th, persisted, calls>>
  /\ UNCHANGED <<dedupVars, supVars, repoVars, loopVars, readdVars, webVars>>

\* the sleep of the loop is over, within the day or a day later
ASleepDone(days) ==
  /\ w_pc = "sleep"
  /\ now + days * SecPerDay <= MaxAge * SecPerDay
  /\ now' = now + days * SecPerDay
  /\ w_pc' = "tick"
  /\ UNCHANGED <<variant, db, ts_db, disk, inodes, th, persisted, calls>>
  /\ UNCHANGED <<w_take, w_source, w_seen, w_new, w_i, w_posted, w_failed, w_last, w_unsaved, w_ticks, w_obs, w_dup, w_always>>
  /\ UNCHANGED <<dedupVars, supVars, repoVars, loopVars, readdVars, webVars>>

AgingNext ==
  \/ \E p \in APages : ATickAt(p)
  \/ \E days \in {0, 1} : ASleepDone(days)

SpecAging == AgingInit /\ [][AgingNext]_vars

\* C32: entries of items that are no longer observed expire. After every
\* tick, an entry whose item the page listed last at a time more than the
\* TTL of 3 days ago is not in the watcher's seen store, whatever the
\* watcher delivered and saved in between.
C32_UnobservedExpires ==
  [][(\E p \in APages : ATickAt(p)) =>
       \A k \in DOMAIN w_obs' :
         now > w_obs'[k] + TtlDays * SecPerDay => k \notin GetSeen(db', WKey)]_vars

\* C40: no duplicate while an item stays listed. A key that the page of
\* every tick has listed is posted at most once, however long the watcher
\* runs.
C40_ListedPostedOnce == w_dup \cap w_always = {}

\* ------------------------------------------------------------------------
\* Further properties of the watcher thread (SpecLoopFair)
\* ------------------------------------------------------------------------
\* C22: error containment. Whatever step of a tick raises, the thread does
\* not end unless its stop event is set, the tick that raised is followed by
\* the sleep loop, and another tick begins later unless the loop is stopped;
\* the loop of another watcher keeps beginning ticks.
C22_ErrorContainment ==
  /\ [](l_pc = "done" => l_stop)
  /\ [][l_err' # l_err /\ l_err' \in {"extract", "save"} => l_pc' = "sleep"]_vars
  /\ (l_err # "none" ~> (l_pc = "prune" \/ l_stop))
  /\ []<>(l_peer = "tick")

\* C22 witness: after a tick whose extraction raised, a later tick of the
\* running loop has extracted new items, and the other loop is in a tick
C22_Witness ==
  /\ l_err = "extract"
  /\ l_pc = "deliver"
  /\ ~l_stop
  /\ l_peer = "tick"

C24_StopFailureReported ==
  [][s_reply' = "done" =>
       \A i \in 1..MaxThreads :
         (s_thr[i].alive /\ ~s_thr[i].stop /\ s_thr'[i].stop) => ~s_thr'[i].alive]_vars

\* C25: configuration persistence. A command that completes a mutation (add,
\* add_here, remove, archive, interval, rename) leaves the config file with
\* the content of the registry; a command that is rejected leaves the
\* registry and the file as they were.
C25_ConfigPersisted ==
  /\ [][s_reply' = "done" => s_file' = s_cfg']_vars
  /\ [][s_reply' = "rejected" => (s_cfg' = s_cfg /\ s_file' = s_file)]_vars

\* C25 witness: two entries were added, the interval of one was changed and
\* one was removed; then a command was rejected
C25_Witness ==
  /\ s_reply = "rejected"
  /\ Len(s_cfg) = 1
  /\ s_cfg[1].interval # DefaultInterval
  /\ s_file = s_cfg
  /\ \E c \in DOMAIN s_chan : c # s_cfg[1].channel_id

\* the candidates the reference deduplicator accepts: those whose key the
\* caller had not seen and that fewer than take such candidates precede
RefNew ==
  LET idx == SelectSeq([i \in 1..Len(Listings) |-> i],
                       LAMBDA i : Key(Listings[i]) \notin d_S /\ NovelBefore(i) < d_take)
  IN [j \in 1..Len(idx) |-> Listings[idx[j]]]

\* C26: reference behaviour of the deduplicator for limit >= 1. The accepted
\* items are exactly the first take candidates, in source order, whose key is
\* not in the seen set; the seen set after the call is the seen set before
\* it united with the keys of the accepted items, so the keys of skipped and
\* deferred candidates are not added; and the total is the length of the
\* candidate list however many were accepted.
C26_ReferenceDedup ==
  (d_pc = "once" /\ d_take >= 1) =>
    /\ d_res1[1] = RefNew
    /\ d_seen = d_S \cup KeysOf(RefNew)
    /\ d_res1[2] = Len(Listings)

\* C26 witness: of two novel candidates the first is accepted at take 1 and
\* the second is deferred; the caller had seen the first at another price
C26_Witness ==
  /\ d_pc = "once" /\ d_take = 1
  /\ Len(Listings) = 2
  /\ SeenAtOtherPrice(Listings[1])
  /\ d_res1 = <<SubSeq(Listings, 1, 1), 2>>
  /\ Key(Listings[2]) \notin d_seen

\* C27: per-tick ordering. The loop reaches its save_seen only from the
\* delivery, once the notifier has been invoked for every new item of the
\* tick; after the save the tick is over, so there is at most one save per
\* tick; and a tick whose extraction returns no new item goes to sleep with
\* nothing posted and the store untouched.
C27_SaveAfterNotify ==
  /\ [][(w_pc' = "save" /\ w_pc # "save") =>
          (w_pc = "deliver" /\ w_new # <<>> /\ KeysOf(w_new) \subseteq w_posted' \cup w_failed')]_vars
  /\ [][w_pc = "save" => w_pc' \in {"sleep", "tick"}]_vars
  /\ [][(w_pc = "extract" /\ w_last' = "ok" /\ w_new' = <<>>) =>
          /\ w_pc' = "sleep"
          /\ UNCHANGED <<w_posted, w_failed, db, ts_db, disk, inodes>>]_vars

\* C27 witness: a tick has posted its new item and saved the set, and the
\* next tick found nothing new and went to sleep
C27_Witness ==
  /\ w_pc = "sleep" /\ w_last = "ok" /\ w_new = <<>>
  /\ w_posted # {}
  /\ w_posted \subseteq GetSeen(LoadedDb, WKey)

\* C29: a persistence failure keeps the tick's seen set. The keys of items
\* delivered in a tick whose save_seen failed to write the file stay in the
\* seen set the watcher uses on its later ticks (until prune_old expires
\* them), so no later extraction returns them again, and the next save_seen
\* that succeeds leaves them in the file.
C29_FailedSaveKeepsSeen ==
  /\ [](w_unsaved \subseteq w_seen)
  /\ [][w_pc = "extract" => KeysOf(w_new') \cap w_unsaved = {}]_vars
  /\ [][(w_pc = "save" /\ w_pc' = "sleep" /\ w_unsaved # {} /\ w_unsaved' = {}) =>
          w_unsaved \subseteq GetSeen(LoadedDb', WKey)]_vars

\* C29 witness: the save of an earlier tick failed and the file does not hold
\* the keys delivered then; the tick under way has extracted and posted
\* another item, not those, and is about to save
C29_Witness ==
  /\ w_pc = "save" /\ w_unsaved # {}
  /\ KeysOf(w_new) \cap w_unsaved = {}
  /\ w_unsaved \subseteq w_posted
  /\ w_unsaved \cap GetSeen(LoadedDb, WKey) = {}

\* C30: timestamp invariant. In every state of a constructed store, after
\* loading any file and after any sequence of save_seen and prune_old calls
\* under a clock that does not go back, every entry of every partition has a
\* timestamp that is not later than the clock.
C30_TimestampNotAfterNow ==
  r_pc = "up" =>
    \A ch \in DOMAIN ts_db : \A k \in DOMAIN ts_db[ch] : ts_db[ch][k] <= now

\* ------------------------------------------------------------------------
\* Further properties of the deduplicator (SpecDedup)
\* ------------------------------------------------------------------------
\* C31: null-attribute key. The key of an item without a price is its
\* identity alone, and an item that has been accepted under that key (the
\* seen set holds the identity alone) is not returned again, whether the
\* page lists it without a price or at a price. Stated for take >= 1,
\* where the limit is kept.
C31_NullPriceOnce ==
  (d_pc = "once" /\ d_take >= 1) =>
    \A i \in 1..Len(Listings) :
      <<Listings[i].id>> \in d_S => Listings[i] \notin ItemsOf(d_res1[1])

\* ------------------------------------------------------------------------
\* Further properties of the manager (SpecSup)
\* ------------------------------------------------------------------------
\* C33: the polling interval is a positive integer. Every interval stored
\* in the config is at least 1, and the loop registered for the entry's
\* channel has an interval_sec of at least 1 that equals the stored one.
C33_IntervalPositive ==
  \A i \in 1..Len(s_cfg) :
    /\ s_cfg[i].interval >= 1
    /\ s_cfg[i].channel_id \in DOMAIN s_threads =>
         /\ s_thr[s_threads[s_cfg[i].channel_id]].interval_sec >= 1
         /\ s_thr[s_threads[s_cfg[i].channel_id]].interval_sec = s_cfg[i].interval

\* C34: rename changes only the watcher's key. After a rename the registry
\* holds the new name and not the old one, with the channel and interval of
\* the old entry, every other entry is as it was, the thread and stop-event
\* registries, the threads and the seen store are unchanged and the file
\* holds the registry; a rename that is rejected changes none of them.
C34_RenameOnlyKey ==
  /\ [][\A old, new \in Names :
          CmdRename(old, new) =>
            /\ new \in CfgNames(s_cfg') /\ old \notin CfgNames(s_cfg')
            /\ CfgGet(s_cfg', new).channel_id = CfgGet(s_cfg, old).channel_id
            /\ CfgGet(s_cfg', new).interval = CfgGet(s_cfg, old).interval
            /\ \A n \in CfgNames(s_cfg) \ {old} :
                 n \in CfgNames(s_cfg') /\ CfgGet(s_cfg', n) = CfgGet(s_cfg, n)
            /\ CfgNames(s_cfg') \subseteq (CfgNames(s_cfg) \ {old}) \cup {new}
            /\ s_file' = s_cfg'
            /\ UNCHANGED <<s_threads, s_stops, s_thr, db, ts_db>>]_vars
  /\ [][\A n \in Names :
          CmdRejected("rename", n) => UNCHANGED <<s_cfg, s_file, s_threads, s_stops, s_thr, s_chan>>]_vars

\* C34 witness: the only entry has the second name, its interval was set
\* under the first name, its channel has been renamed and its loop runs
C34_Witness ==
  /\ variant = "sreality" /\ s_reply = "done"
  /\ Len(s_cfg) = 1 /\ s_cfg[1].name = "b"
  /\ s_cfg[1].interval # DefaultInterval
  /\ s_chan[s_cfg[1].channel_id].name = OtherName
  /\ ~s_chan[s_cfg[1].channel_id].archived
  /\ s_cfg[1].channel_id \in DOMAIN s_threads
  /\ s_thr[s_threads[s_cfg[1].channel_id]].alive

\* C35: an add or add_here command whose name is already a key of the
\* registry changes nothing: the registry, the config file, the thread and
\* stop-event registries, the threads and the channels are as they were.
C35_KnownNameRejected ==
  [][\A n \in Names :
       (/\ n \in CfgNames(s_cfg)
        /\ \E c \in Channels, iv \in AddIntervals, h \in BOOLEAN :
             \/ CmdAdd(n, c, iv, h)
             \/ \E e \in BOOLEAN : BezCmdAdd(n, c, iv, h, e))
       => UNCHANGED <<s_cfg, s_file, s_threads, s_stops, s_thr, s_chan>>]_vars

\* ------------------------------------------------------------------------
\* The web application (SpecWeb): search configs and listings in the
\* database, the scheduler's jobs, scrapes run by a job or on request
\* ------------------------------------------------------------------------
CfgIds == {1, 2}
WebSeconds == {1, 2}

\* the listing ids of a search page in page order, each at most once
WebPages ==
  {p \in SeqsUpTo(ItemIds, MaxPage) : \A i, j \in 1..Len(p) : p[i] = p[j] => i = j}

\* a SearchConfig row, and what is left of it once deleted
Row(sec, active) == [interval_sec |-> sec, is_active |-> active, exists |-> TRUE]
NoRow == [interval_sec |-> 0, is_active |-> FALSE, exists |-> FALSE]
Exists(cfgs, pk) == pk \in DOMAIN cfgs /\ cfgs[pk].exists

\* on_delete=models.SET_NULL of Listing.search_config
SetNull(rows, pk) == [i \in DOMAIN rows |-> IF rows[i] = pk THEN 0 ELSE rows[i]]

\* scheduler.get_job(job_id), remove_job(job_id), add_job(..., replace_existing=True)
JobsOf(jobs, pk) == {j \in jobs : j.id = pk}
RemoveJob(jobs, pk) == jobs \ JobsOf(jobs, pk)
AddJob(jobs, pk, seconds) == RemoveJob(jobs, pk) \cup {[id |-> pk, seconds |-> seconds]}

\* a schedule_config that adds its job next to the one already there
ScheduleConfigKeep(jobs, pk, seconds) == jobs \cup {[id |-> pk, seconds |-> seconds]}

\* scheduler.py schedule_config: the job of the id is removed if there is
\* one, and a job with the config's interval is added
ScheduleConfig(jobs, pk, seconds) ==
  AddJob(IF JobsOf(jobs, pk) # {} THEN RemoveJob(jobs, pk) ELSE jobs, pk, seconds)

\* scheduler.py unschedule_config
UnscheduleConfig(jobs, pk) == IF JobsOf(jobs, pk) # {} THEN RemoveJob(jobs, pk) ELSE jobs

\* scheduler.py start_scheduler: schedule_config for every active config
RECURSIVE ScheduleAll(_, _, _)
ScheduleAll(jobs, cfgs, pks) ==
  IF pks = {} THEN jobs
  ELSE LET pk == CHOOSE x \in pks : \A y \in pks : x <= y
       IN ScheduleAll(ScheduleConfig(jobs, pk, cfgs[pk].interval_sec), cfgs, pks \ {pk})

ActivePks(cfgs) == {pk \in DOMAIN cfgs : cfgs[pk].exists /\ cfgs[pk].is_active}

\* scraper.py run_scrape, the loop over new_items: get_or_create by
\* listing_id, saved += 1 for every item whose get_or_create did not raise;
\* created counts the rows the call inserted
RECURSIVE SaveItems(_, _, _)
SaveItems(rows, pk, items) ==
  IF items = <<>> THEN [rows |-> rows, saved |-> 0, created |-> 0]
  ELSE LET lid == Head(items)
           made == lid \notin DOMAIN rows
           rest == SaveItems(IF made THEN Put(rows, lid, pk) ELSE rows, pk, Tail(items))
       IN [rows |-> rest.rows, saved |-> rest.saved + 1,
           created |-> rest.created + (IF made THEN 1 ELSE 0)]

\* scraper.py run_scrape: seen_ids are the listing ids of the rows of this
\* config; extract_new_listings returns the page's items whose id is not in
\* seen_ids, or raises
RunScrape(rows, pk, page, fails) ==
  IF fails THEN [rows |-> rows, saved |-> 0, created |-> 0, op |-> "failed"]
  ELSE LET seen_ids == {i \in DOMAIN rows : rows[i] = pk}
           new_items == SelectSeq(page, LAMBDA i : i \notin seen_ids)
           r == SaveItems(rows, pk, new_items)
       IN [rows |-> r.rows, saved |-> r.saved, created |-> r.created, op |-> "scrape"]

WebInit ==
  /\ variant = "sreality"
  /\ now = 0
  /\ db = EmptyMap
  /\ ts_db = EmptyMap
  /\ disk = [target |-> 0, tmp |-> 0]
  /\ inodes = [i \in 1..NumInodes |-> <<>>]
  /\ th = [t \in Threads |-> IdleTh]
  /\ persisted = [c \in Channels |-> {}]
  /\ calls = 0
  /\ d_pc = "off"
  /\ d_anchors = <<>>
  /\ d_scan = 0
  /\ d_take = 0
  /\ d_S = {}
  /\ d_seen = {}
  /\ d_res1 = <<>>
  /\ d_res2 = <<>>
  /\ w_pc = "off"
  /\ w_take = 0
  /\ w_source = <<>>
  /\ w_seen = {}
  /\ w_new = <<>>
  /\ w_i = 0
  /\ w_posted = {}
  /\ w_failed = {}
  /\ w_last = "none"
  /\ w_unsaved = {}
  /\ w_ticks = 0
  /\ w_obs = EmptyMap
  /\ w_dup = {}
  /\ w_always = {}
  /\ s_cfg = <<>>
  /\ s_file = <<>>
  /\ s_threads = EmptyMap
  /\ s_stops = EmptyMap
  /\ s_thr = [i \in 1..MaxThreads |-> FreeThread]
  /\ s_chan = EmptyMap
  /\ s_reply = "none"
  /\ r_pc = "off"
  /\ r_last = NoCall
  /\ l_pc = "off"
  /\ l_stop = FALSE
  /\ l_interval = 0
  /\ l_left = 0
  /\ l_stop_at = "none"
  /\ l_err = "none"
  /\ l_peer = "off"
  /\ a_reg = ""
  /\ a_seen = {}
  /\ a_cur = {}
  /\ a_sent = {}
  /\ a_again = {}
  /\ web = NoWeb

WebFrame == UNCHANGED <<storeVars, dedupVars, watchVars, supVars, repoVars, loopVars, readdVars>>

\* views.py SearchConfigListView.post: the row is created active and its job
\* is scheduled
ConfigPost(sec) ==
  LET pk == Cardinality(DOMAIN v_cfgs) + 1
  IN /\ pk \in CfgIds
     /\ web' = [web EXCEPT !.cfgs = Put(v_cfgs, pk, Row(sec, TRUE)),
                           !.jobs = ScheduleConfig(v_jobs, pk, sec),
                           !.call = Put(v_call, pk, [op |-> "schedule", seconds |-> sec])]
     /\ WebFrame

\* views.py SearchConfigDetailView.delete: unschedule, then delete the row
ConfigDelete(pk) ==
  /\ Exists(v_cfgs, pk)
  /\ web' = [web EXCEPT !.jobs = UnscheduleConfig(v_jobs, pk),
                        !.call = Put(v_call, pk, [op |-> "unschedule", seconds |-> 0]),
                        !.cfgs = Put(v_cfgs, pk, NoRow),
                        !.rows = SetNull(v_rows, pk)]
  /\ WebFrame

\* admin.py SearchConfigAdmin, list_editable: interval_sec and is_active are
\* saved, the scheduler is not told
AdminSave(pk, sec, active) ==
  /\ Exists(v_cfgs, pk)
  /\ web' = [web EXCEPT !.cfgs = Put(v_cfgs, pk, Row(sec, active))]
  /\ WebFrame

\* admin.py SearchConfigAdmin, delete: the row is deleted, the scheduler is
\* not told
AdminDelete(pk) ==
  /\ Exists(v_cfgs, pk)
  /\ web' = [web EXCEPT !.cfgs = Put(v_cfgs, pk, NoRow),
                        !.rows = SetNull(v_rows, pk)]
  /\ WebFrame

\* scheduler.py start_scheduler
StartScheduler ==
  /\ web' = [web EXCEPT
               !.jobs = ScheduleAll(v_jobs, v_cfgs, ActivePks(v_cfgs)),
               !.call = [pk \in DOMAIN v_call \cup ActivePks(v_cfgs) |->
                           IF pk \in ActivePks(v_cfgs)
                           THEN [op |-> "schedule", seconds |-> v_cfgs[pk].interval_sec]
                           ELSE v_call[pk]],
               !.run = TRUE]
  /\ WebFrame

\* scheduler.py _scrape_job, called by the running scheduler for a job:
\* nothing is scraped unless the config exists and is active
ScrapeJob(pk, page, fails) ==
  /\ v_run
  /\ JobsOf(v_jobs, pk) # {}
  /\ IF Exists(v_cfgs, pk) /\ v_cfgs[pk].is_active
     THEN LET r == RunScrape(v_rows, pk, page, fails)
          IN web' = [web EXCEPT !.rows = r.rows,
                                !.ret = [op |-> r.op, saved |-> r.saved, created |-> r.created]]
     ELSE web' = [web EXCEPT !.ret = [op |-> "skip", saved |-> 0, created |-> 0]]
  /\ WebFrame

\* views.py SearchConfigScrapeNowView.post
ScrapeNow(pk, page, fails) ==
  /\ Exists(v_cfgs, pk)
  /\ LET r == RunScrape(v_rows, pk, page, fails)
     IN web' = [web EXCEPT !.rows = r.rows,
                           !.ret = [op |-> r.op, saved |-> r.saved, created |-> r.created]]
  /\ WebFrame

WebNext ==
  \/ \E sec \in WebSeconds : ConfigPost(sec)
  \/ \E pk \in CfgIds : ConfigDelete(pk)
  \/ \E pk \in CfgIds, sec \in WebSeconds, active \in BOOLEAN : AdminSave(pk, sec, active)
  \/ \E pk \in CfgIds : AdminDelete(pk)
  \/ StartScheduler
  \/ \E pk \in CfgIds, page \in WebPages, fails \in BOOLEAN : ScrapeJob(pk, page, fails)
  \/ \E pk \in CfgIds, page \in WebPages, fails \in BOOLEAN : ScrapeNow(pk, page, fails)

SpecWeb == WebInit /\ [][WebNext]_vars

\* C36: run_scrape returns the number of Listing rows the call created,
\* also when a scraped id is already a row of another config or of none,
\* and 0 when the extraction fails.
C36_SavedIsCreated ==
  /\ v_ret.op = "scrape" => v_ret.saved = v_ret.created
  /\ v_ret.op = "failed" => v_ret.saved = 0 /\ v_ret.created = 0

\* C37: whatever schedule, unschedule and start calls were made, there is at
\* most one job per config id, every job was put there by the most recent
\* call for its id, which was a schedule call with the job's interval (so an
\* id whose last call was an unschedule has no job), and a job that fires
\* for a config that is deleted or inactive scrapes nothing.
C37_OneJobPerConfig ==
  /\ [](\A pk \in CfgIds :
          /\ Cardinality(JobsOf(v_jobs, pk)) <= 1
          /\ \A j \in JobsOf(v_jobs, pk) :
               /\ pk \in DOMAIN v_call
               /\ v_call[pk].op = "schedule"
               /\ j.seconds = v_call[pk].seconds)
  /\ [][\A pk \in CfgIds :
          (/\ ~(Exists(v_cfgs, pk) /\ v_cfgs[pk].is_active)
           /\ \E page \in WebPages, fails \in BOOLEAN : ScrapeJob(pk, page, fails))
          => v_rows' = v_rows /\ v_ret'.op = "skip"]_vars

\* C37 witness: the job of the first config was replaced by one with the
\* interval saved since, the second config was unscheduled and deleted, and
\* the job of the first config has fired after the config was made inactive
C37_Witness ==
  /\ v_run
  /\ v_jobs = {[id |-> 1, seconds |-> 1]}
  /\ v_call = <<[op |-> "schedule", seconds |-> 1], [op |-> "unschedule", seconds |-> 0]>>
  /\ Exists(v_cfgs, 1) /\ ~v_cfgs[1].is_active /\ v_cfgs[1].interval_sec = 2
  /\ v_ret.op = "skip"
  /\ v_rows # EmptyMap

\* ------------------------------------------------------------------------
\* Further properties of the seen store (SpecRepo)
\* ------------------------------------------------------------------------

\* C38: restart equivalence. After save_seen and prune_old calls whose
\* writes succeeded, a store constructed from the file gives for every key
\* the get_seen set of the running store, and the set given by get_seen is
\* the key set of the key's timestamp map.
C38_RestartEquivalence ==
  (r_pc = "up" /\ r_last.op \in {"save", "prune"} /\ ~r_last.raised) =>
    \A ch \in Channels :
      /\ GetSeen(NewRepo(variant, disk, inodes).db, ch) = GetSeen(db, ch)
      /\ variant = "sreality" => GetSeen(db, ch) = DOMAIN TsMap(ts_db, ch)

\* ------------------------------------------------------------------------
\* Registry consistency of the manager (SpecSup)
\* ------------------------------------------------------------------------

\* C39: the thread registry and the stop-event registry have the same keys,
\* the stop event registered for a destination is the one its registered
\* thread holds, every live loop thread that has not been told to stop is
\* the one registered for its destination, and every registered destination
\* is that of a config entry.
C39_RegistryConsistent ==
  /\ DOMAIN s_threads = DOMAIN s_stops
  /\ \A c \in DOMAIN s_threads : s_stops[c] = s_threads[c]
  /\ \A i \in DOMAIN s_thr :
       (s_thr[i].alive /\ ~s_thr[i].stop) =>
         s_thr[i].ch \in DOMAIN s_threads /\ s_threads[s_thr[i].ch] = i
  /\ \A c \in DOMAIN s_threads : \E k \in 1..Len(s_cfg) : s_cfg[k].channel_id = c

====
